---- MODULE Spec2Model ----
(***************************************************************************)
(* Session-length / performance-trend analytics of refleks.                *)
(*                                                                         *)
(*   frontend/src/lib/analysis/sessionLength.ts                            *)
(*       collectRunsBySession, expectedByIndex, expectedBestVsLength,      *)
(*       expectedAvgVsLength, recommendLengths, median, percentile         *)
(*   src/unnamed/part_012 (lib/utils + lib/analysis/prediction)            *)
(*       getScenarioName, parseRecordTimestamp, collectScenarioHistory     *)
(*                                                                         *)
(* Numbers.  Timestamps are integer milliseconds.  Scores are integers.    *)
(* Every derived quantity (means, curves, medians) is an exact rational    *)
(* <<num, den>> with den > 0 in lowest terms; Math.sqrt is computed to     *)
(* SQRT_DIGITS decimal digits (exactly when the radicand is a rational     *)
(* square).  IEEE-754 rounding of the JavaScript doubles is not modelled.  *)
(***************************************************************************)
EXTENDS Integers, Sequences, FiniteSets, TLC

VARIABLES
    \* ---- highscore history (collectScenarioHistory) ----
    items,      \* ScenarioRecord[] handed to collectScenarioHistory
    now,        \* the wall clock, Date.now(), in ms
    ticks,      \* how often the clock has advanced
    hist,       \* result of collectScenarioHistory(items, name)
    called,     \* TRUE once hist has been computed
    calledAt,   \* the clock at that call
    shuffled,   \* a shuffled copy of items
    hist2,      \* result of collectScenarioHistory(shuffled, name)
    called2,    \* TRUE once hist2 has been computed
    calledAt2,  \* the clock at that call
    \* ---- session-length insights (sessionLength.ts) ----
    sessions,   \* Session[]: each a record with field items
    metric,     \* "score" | "acc"
    runs,       \* collectRunsBySession(sessions, name)
    byIdx,      \* expectedByIndex(runs, metric)
    bestVsL,    \* expectedBestVsLength(runs, metric)
    lengthStats,\* expectedAvgVsLength(runs, metric), or NoStats
    rec,        \* recommendLengths(byIdx, bestVsL, lengthStats?)
    stage,      \* "input" | "rendered"
    \* ---- timestamp resolution (parseRecordTimestamp) ----
    record,     \* the ScenarioRecord handed to parseRecordTimestamp
    ts,         \* its result
    resolved,   \* TRUE once ts has been computed
    resolvedAt, \* the clock at that call
    \* ---- highscore forecast (predictNextHighscore) ----
    fitOut,     \* what fitDeltaVsPause returns for the history of items
    searchOut,  \* what the grid search meets: x = 1 - exp(-d / tau), first or last pause
    locals,     \* the locals of the first call of predictNextHighscore(items, name)
    pred,       \* its result
    predicted,  \* TRUE once pred has been computed
    predAt,     \* the clock at that call
    pred2,      \* the result of a second call on the same items
    predicted2, \* TRUE once pred2 has been computed
    predAt2,    \* the clock at that call
    \* ---- the numeric helpers on their own ----
    pointsX,    \* the abscissae handed to weightedLinReg
    pointsY,    \* the ordinates
    pointsW,    \* the weights
    values,     \* the array handed to the averages, median, percentile and quantile
    reg,        \* weightedLinReg(xs, ys, ws), NULL before the call
    summary,    \* the averages and order statistics of values, NULL before the call
    \* ---- AIService (src/unnamed/part_017) ----
    pc,         \* per request: where GenerateSessionInsights and its goroutine stand
    cancels,    \* s.cancels: the request ids holding a cancel function
    ctxDone,    \* per request: its streaming context has been cancelled
    events,     \* the Wails events emitted so far, in order
    cancelAsked \* per request: Cancel was invoked between its Start and its Done

histVars == <<items, now, ticks, hist, called, calledAt, shuffled, hist2, called2, calledAt2>>
lenVars  == <<sessions, metric, runs, byIdx, bestVsL, lengthStats, rec, stage>>
stampVars == <<record, ts, resolved, resolvedAt>>
predVars == <<fitOut, searchOut, locals, pred, predicted, predAt, pred2, predicted2, predAt2>>
numVars == <<pointsX, pointsY, pointsW, values, reg, summary>>
aiVars == <<pc, cancels, ctxDone, events, cancelAsked>>
vars     == <<items, now, ticks, hist, called, calledAt, shuffled, hist2, called2, calledAt2,
              sessions, metric, runs, byIdx, bestVsL, lengthStats, rec, stage,
              record, ts, resolved, resolvedAt,
              fitOut, searchOut, locals, pred, predicted, predAt, pred2, predicted2, predAt2,
              pointsX, pointsY, pointsW, values, reg, summary,
              pc, cancels, ctxDone, events, cancelAsked>>

\* What the steps of one component leave alone of the others.
besidesHistory == <<lenVars, stampVars, predVars, numVars, aiVars>>
besidesLength == <<histVars, stampVars, predVars, numVars, aiVars>>
besidesStamp == <<histVars, lenVars, predVars, numVars, aiVars>>
besidesNumeric == <<histVars, lenVars, stampVars, predVars, aiVars>>
besidesAI == <<histVars, lenVars, stampVars, predVars, numVars>>

----------------------------------------------------------------------------
(* Generic helpers                                                         *)

Range(s) == { s[i] : i \in DOMAIN s }

\* The multiset of the elements of a sequence, as a function element -> count.
BagOfSeq(s) == [ e \in Range(s) |-> Cardinality({ i \in DOMAIN s : s[i] = e }) ]

\* All sequences over S of length 0..n.
SeqsUpTo(S, n) == UNION { [1..k -> S] : k \in 0..n }

\* All permutations of the index set 1..n, as functions.
PermsOf(n) == { p \in [1..n -> 1..n] : \A i, j \in 1..n : i # j => p[i] # p[j] }

\* Array.prototype.sort((a, b) => key(a) - key(b)) is a stable sort.  Here the
\* array is a sequence of pairs <<key, element>>: insertion from the left, an
\* element going after every element whose key is not greater.
RECURSIVE InsertStable(_, _)
InsertStable(x, s) ==
    IF s = <<>> THEN <<x>>
    ELSE IF Head(s)[1] - x[1] > 0 THEN <<x>> \o s
    ELSE <<Head(s)>> \o InsertStable(x, Tail(s))

RECURSIVE StableSort(_)
StableSort(s) ==
    IF s = <<>> THEN <<>>
    ELSE InsertStable(s[Len(s)], StableSort(SubSeq(s, 1, Len(s) - 1)))

----------------------------------------------------------------------------
(* Numbers: exact rationals <<num, den>>, den > 0, in lowest terms         *)

RECURSIVE GCD(_, _)
GCD(a, b) == IF b = 0 THEN a ELSE GCD(b, a % b)

IAbs(n) == IF n < 0 THEN -n ELSE n

Q(n, d) ==
    LET g == GCD(IAbs(n), IAbs(d))
        sgn == IF d < 0 THEN -1 ELSE 1
    IN  IF n = 0 THEN <<0, 1>> ELSE <<sgn * (n \div g), sgn * (d \div g)>>

QInt(n) == <<n, 1>>
QZero == <<0, 1>>
QAdd(a, b) == Q(a[1] * b[2] + b[1] * a[2], a[2] * b[2])
QSub(a, b) == Q(a[1] * b[2] - b[1] * a[2], a[2] * b[2])
QMul(a, b) == Q(a[1] * b[1], a[2] * b[2])
QDiv(a, b) == Q(a[1] * b[2], a[2] * b[1])
QDivInt(a, n) == Q(a[1], a[2] * n)
QLe(a, b) == a[1] * b[2] <= b[1] * a[2]
QLt(a, b) == a[1] * b[2] < b[1] * a[2]
QAbs(a) == <<IAbs(a[1]), a[2]>>
QMax(a, b) == IF QLt(a, b) THEN b ELSE a
QMin(a, b) == IF QLt(b, a) THEN b ELSE a

\* arr.reduce((a, b) => a + b, 0)
RECURSIVE QSum(_)
QSum(s) == IF s = <<>> THEN QZero ELSE QAdd(QSum(SubSeq(s, 1, Len(s) - 1)), s[Len(s)])

\* The last value in place of the largest.
QLastOf(s) == s[Len(s)]

\* Math.max(...vals), vals not empty
RECURSIVE QMaxOf(_)
QMaxOf(s) == IF Len(s) = 1 THEN s[1] ELSE QMax(QMaxOf(SubSeq(s, 1, Len(s) - 1)), s[Len(s)])

\* Math.min(...vals), vals not empty
RECURSIVE QMinOf(_)
QMinOf(s) == IF Len(s) = 1 THEN s[1] ELSE QMin(QMinOf(SubSeq(s, 1, Len(s) - 1)), s[Len(s)])

\* The largest r with r * r <= x, by bisection on lo..hi.
RECURSIVE ISqrtIn(_, _, _)
ISqrtIn(x, lo, hi) ==
    IF lo >= hi THEN lo
    ELSE LET mid == (lo + hi + 1) \div 2
         IN  IF mid * mid <= x THEN ISqrtIn(x, mid, hi) ELSE ISqrtIn(x, lo, mid - 1)

SQRT_SCALE == 100
SQRT_MAX == 40000

\* Math.sqrt, rounded down to a multiple of 1 / SQRT_SCALE (exact whenever the
\* root is such a multiple).
QSqrt(a) ==
    LET scaled == (a[1] \div a[2]) * SQRT_SCALE * SQRT_SCALE
                      + ((a[1] % a[2]) * SQRT_SCALE * SQRT_SCALE) \div a[2]
    IN  Q(ISqrtIn(scaled, 0, SQRT_MAX), SQRT_SCALE)

\* [...arr].sort((a, b) => a - b) on numbers
RECURSIVE QInsert(_, _)
QInsert(x, s) ==
    IF s = <<>> THEN <<x>>
    ELSE IF QLt(x, Head(s)) THEN <<x>> \o s
    ELSE <<Head(s)>> \o QInsert(x, Tail(s))

RECURSIVE QSort(_)
QSort(s) == IF s = <<>> THEN <<>> ELSE QInsert(s[Len(s)], QSort(SubSeq(s, 1, Len(s) - 1)))

----------------------------------------------------------------------------
(* lib/utils and lib/analysis/prediction (src/unnamed/part_012)            *)
(*                                                                         *)
(* A ScenarioRecord is modelled by the fields the code reads:              *)
(*   Scenario    stats['Scenario'], "" when absent or blank                *)
(*   fnScenario  what the file name yields as a scenario name              *)
(*   fileTs      the instant of the YYYY.MM.DD-HH.MM.SS stamp in fileName, *)
(*               NO_MATCH when fileName holds none                         *)
(*   dateYmd     local midnight of the year-month-day that 'Date Played'   *)
(*               holds, NO_MATCH when it holds none (or is empty)          *)
(*   startTime   the h:mm:ss of 'Challenge Start' as a time of day in ms,  *)
(*               NO_MATCH when it is empty or holds none                   *)
(*   dateParsed  Date.parse('Date Played'), NaN when that fails (or the    *)
(*               field is empty)                                           *)
(*   Score       Number(stats['Score'] ?? 0), NaN when not finite          *)
(* Instants are milliseconds counted from the oldest instant of the model. *)

NO_MATCH == -1
NaN == -1000000
NEGATIVE_INFINITY == -2

SESSION_GAP_MIN == 30
gapMs == SESSION_GAP_MIN * 60 * 1000

isFinite(x) == x # NaN /\ x # NEGATIVE_INFINITY

getScenarioName(it) ==
    IF it.Scenario # "" THEN it.Scenario ELSE it.fnScenario

\* The chain collapsed to a single Date.parse of Date Played.
parseRecordTimestampCollapsed(it, clock) ==
    IF isFinite(it.dateParsed) THEN it.dateParsed ELSE clock

\* The fileName stamp; else the date of Date Played at the time of day of
\* Challenge Start (at midnight when that holds no time); else
\* Date.parse(Date Played); else Date.now() (clock).
parseRecordTimestamp(it, clock) ==
    IF it.fileTs # NO_MATCH THEN it.fileTs
    ELSE IF it.dateYmd # NO_MATCH
         THEN (IF it.startTime # NO_MATCH THEN it.dateYmd + it.startTime ELSE it.dateYmd)
         ELSE IF isFinite(it.dateParsed) THEN it.dateParsed
         ELSE clock

\* The first loop of collectScenarioHistory: keep the records of the scenario
\* whose Score is finite, each with its resolved timestamp.
RECURSIVE filterHistory(_, _, _)
filterHistory(its, name, clock) ==
    IF its = <<>> THEN <<>>
    ELSE LET it == Head(its)
             rest == filterHistory(Tail(its), name, clock)
         IN  IF getScenarioName(it) # name THEN rest
             ELSE IF ~isFinite(it.Score) THEN rest
             ELSE <<[t |-> parseRecordTimestamp(it, clock), score |-> it.Score]>> \o rest

\* The walk without its sort: the records stay in input order.
sortByTSkipped(filtered) == filtered

\* filtered.sort((a, b) => a.t - b.t)
sortByT(filtered) ==
    LET keyed == [ i \in DOMAIN filtered |-> <<filtered[i].t, filtered[i]>> ]
        sorted == StableSort(keyed)
    IN  [ i \in DOMAIN sorted |-> sorted[i][2] ]

\* The gap test with >= in place of >: a gap of exactly the threshold cuts.
nextSidAtThreshold(sid, lastT, t) ==
    IF ~isFinite(lastT) \/ (t - lastT) >= gapMs THEN sid + 1 ELSE sid

\* if (!Number.isFinite(lastT) || (f.t - lastT) > gapMs) sid++
nextSid(sid, lastT, t) ==
    IF ~isFinite(lastT) \/ (t - lastT) > gapMs THEN sid + 1 ELSE sid

\* The second loop of collectScenarioHistory.
RECURSIVE assignSessionIds(_, _, _)
assignSessionIds(filtered, sid, lastT) ==
    IF filtered = <<>> THEN <<>>
    ELSE LET f == Head(filtered)
             s == nextSid(sid, lastT, f.t)
         IN  <<[t |-> f.t, score |-> f.score, sessionId |-> s]>>
                 \o assignSessionIds(Tail(filtered), s, f.t)

collectScenarioHistory(its, name, clock) ==
    assignSessionIds(sortByT(filterHistory(its, name, clock)), 0, NEGATIVE_INFINITY)

----------------------------------------------------------------------------
(* lib/analysis/prediction: predictNextHighscore (src/unnamed/part_012)    *)
(*                                                                         *)
(* A number of the forecast is a rational <<num, den>>; null is NULL.  The *)
(* sums and products below are those of QAdd, QSub, QMul and QDiv, reduced *)
(* before multiplying, instants in ms being large.                         *)
(*                                                                         *)
(* Not computed: Math.exp, Math.log10 and Math.pow.  fitDeltaVsPause is    *)
(* represented by its result, any member of FitOutcomes; the saturation    *)
(* 1 - exp(-d / tau) inside expectedDeltaAtPause by a value x of XGrid;    *)
(* and the grid search of findOptimalPauseAndRuns by its candidate at the  *)
(* first or at the last pause of the grid.  The diagnostics slopePerRun    *)
(* and slopePerDay (regressions weighted by powers of 0.5) are not part of *)
(* the modelled result; weightedLinReg itself is modelled exactly.         *)

DAY == 24 * 3600 * 1000
NULL == <<>>

IMax(a, b) == IF a > b THEN a ELSE b
IMin(a, b) == IF a < b THEN a ELSE b

QPlus(a, b) ==
    LET g == GCD(a[2], b[2])
    IN  Q(a[1] * (b[2] \div g) + b[1] * (a[2] \div g), (a[2] \div g) * b[2])
QMinus(a, b) == QPlus(a, <<-b[1], b[2]>>)
QTimes(a, b) ==
    LET g1 == GCD(IAbs(a[1]), b[2])
        g2 == GCD(IAbs(b[1]), a[2])
    IN  Q((a[1] \div g1) * (b[1] \div g2), (a[2] \div g2) * (b[2] \div g1))
QOver(a, b) == QTimes(a, IF b[1] < 0 THEN <<-b[2], -b[1]>> ELSE <<b[2], b[1]>>)
QLeq(a, b) == QMinus(a, b)[1] <= 0
QLess(a, b) == QMinus(a, b)[1] < 0
QHi(a, b) == IF QLess(a, b) THEN b ELSE a
QLo(a, b) == IF QLess(b, a) THEN b ELSE a

\* Math.floor, Math.ceil, Math.round (halves go up)
QFloor(a) == a[1] \div a[2]
QCeil(a) == -((-a[1]) \div a[2])
QRound(a) == (2 * a[1] + a[2]) \div (2 * a[2])

\* arr.reduce((a, b) => a + b, 0)
RECURSIVE QTotal(_)
QTotal(s) == IF s = <<>> THEN QZero ELSE QPlus(QTotal(SubSeq(s, 1, Len(s) - 1)), s[Len(s)])

\* 0 / 0, what a division by a zero denominator leaves in a double.
QNaN == <<0, 0>>

\* Number.isFinite of a number of the forecast.
QFinite(a) == a[2] # 0

\* The sums of weightedLinReg over the first n points.
regressionSums(xs, ys, ws, n) ==
    [Sw   |-> QTotal([ i \in 1..n |-> ws[i] ]),
     Swx  |-> QTotal([ i \in 1..n |-> QTimes(ws[i], xs[i]) ]),
     Swy  |-> QTotal([ i \in 1..n |-> QTimes(ws[i], ys[i]) ]),
     Swxx |-> QTotal([ i \in 1..n |-> QTimes(QTimes(ws[i], xs[i]), xs[i]) ]),
     Swxy |-> QTotal([ i \in 1..n |-> QTimes(QTimes(ws[i], xs[i]), ys[i]) ])]

\* const denom = Sw * Swxx - Swx * Swx
regressionDenom(S) == QMinus(QTimes(S.Sw, S.Swxx), QTimes(S.Swx, S.Swx))

\* ssTot: the weighted sum of squares of ys about their weighted mean
regressionSsTot(ys, ws, n, S) ==
    LET ymean == IF S.Sw # QZero THEN QOver(S.Swy, S.Sw) ELSE QZero
        d(i) == QMinus(ys[i], ymean)
    IN  QTotal([ i \in 1..n |-> QTimes(ws[i], QTimes(d(i), d(i))) ])

\* The weighted R^2 of the line a + b x: ssTot > 0 ? 1 - ssRes / ssTot : 0
regressionR2(xs, ys, ws, n, a, b, S) ==
    LET e(i) == QMinus(ys[i], QPlus(a, QTimes(b, xs[i])))
        ssRes == QTotal([ i \in 1..n |-> QTimes(ws[i], QTimes(e(i), e(i))) ])
        ssTot == regressionSsTot(ys, ws, n, S)
    IN  IF QLess(QZero, ssTot) THEN QMinus(QInt(1), QOver(ssRes, ssTot)) ELSE QZero

\* The regression with its divisions unguarded: 0 / 0 where a denominator
\* is zero.
weightedLinRegUnguarded(xs, ys, ws) ==
    LET n == IMin(Len(xs), IMin(Len(ys), Len(ws)))
        S == regressionSums(xs, ys, ws, n)
        denom == regressionDenom(S)
    IN  IF n < 2 \/ denom = QZero \/ S.Sw = QZero
        THEN [a |-> QNaN, b |-> QNaN, r2 |-> QNaN]
        ELSE LET b == QOver(QMinus(QTimes(S.Sw, S.Swxy), QTimes(S.Swx, S.Swy)), denom)
                 a == QOver(QMinus(S.Swy, QTimes(b, S.Swx)), S.Sw)
             IN  [a |-> a, b |-> b, r2 |-> regressionR2(xs, ys, ws, n, a, b, S)]

weightedLinReg(xs, ys, ws) ==
    LET n == IMin(Len(xs), IMin(Len(ys), Len(ws)))
    IN  IF n < 2 THEN [a |-> QZero, b |-> QZero, r2 |-> QZero]
        ELSE LET S == regressionSums(xs, ys, ws, n)
                 denom == regressionDenom(S)
                 b == IF denom # QZero
                      THEN QOver(QMinus(QTimes(S.Sw, S.Swxy), QTimes(S.Swx, S.Swy)), denom)
                      ELSE QZero
                 a == IF S.Sw # QZero
                      THEN QOver(QMinus(S.Swy, QTimes(b, S.Swx)), S.Sw)
                      ELSE QZero
             IN  [a |-> a, b |-> b, r2 |-> regressionR2(xs, ys, ws, n, a, b, S)]

\* Math.max(a, Math.min(b, n))
clamp(n, a, b) == QHi(a, QLo(b, n))

\* [...arr].sort((x, y) => x - y)
RECURSIVE QInsertInto(_, _)
QInsertInto(x, s) ==
    IF s = <<>> THEN <<x>>
    ELSE IF QLess(x, Head(s)) THEN <<x>> \o s
    ELSE <<Head(s)>> \o QInsertInto(x, Tail(s))

RECURSIVE QSorted(_)
QSorted(s) ==
    IF s = <<>> THEN <<>> ELSE QInsertInto(s[Len(s)], QSorted(SubSeq(s, 1, Len(s) - 1)))

\* The quantile with no guard for the empty array: a[0] of nothing.
quantileUnguarded(arr, q) ==
    IF Len(arr) = 0 THEN QNaN
    ELSE LET a == QSorted(arr)
             pos == QTimes(clamp(q, QZero, QInt(1)), QInt(Len(a) - 1))
             lo == QFloor(pos)
             hi == QCeil(pos)
             f == QMinus(pos, QInt(lo))
         IN  IF hi = lo THEN a[lo + 1]
             ELSE QPlus(QTimes(a[lo + 1], QMinus(QInt(1), f)), QTimes(a[hi + 1], f))

\* Linear-interpolation quantile of arr at q in [0, 1]; 0 for an empty array.
quantile(arr, q) ==
    IF Len(arr) = 0 THEN QZero
    ELSE LET a == QSorted(arr)
             pos == QTimes(clamp(q, QZero, QInt(1)), QInt(Len(a) - 1))
             lo == QFloor(pos)
             hi == QCeil(pos)
             f == QMinus(pos, QInt(lo))
         IN  IF hi = lo THEN a[lo + 1]
             ELSE QPlus(QTimes(a[lo + 1], QMinus(QInt(1), f)), QTimes(a[hi + 1], f))

\* humanizeETA: the text as its words, "1h 5m" being <<"1", "h", "5", "m">>.
humanizeETA(ms) ==
    IF QLeq(ms, QZero) THEN <<"soon">>
    ELSE LET totalMin == QRound(QOver(ms, QInt(60 * 1000)))
             days == totalMin \div (60 * 24)
             hours == (totalMin % (60 * 24)) \div 60
             mins == totalMin % 60
             weeks == days \div 7
             remDays == days % 7
             D == <<ToString(days), "d">>
             H == <<ToString(hours), "h">>
             M == <<ToString(mins), "m">>
             W == <<ToString(weeks), "w">>
         IN  IF days <= 0
             THEN (IF hours <= 0 THEN M ELSE IF mins # 0 THEN H \o M ELSE H)
             ELSE IF days < 7
             THEN (IF mins # 0 THEN D \o H \o M ELSE IF hours # 0 THEN D \o H ELSE D)
             ELSE (IF remDays # 0 THEN W \o <<ToString(remDays), "d">> ELSE W)

\* The 1-based indices i of the runs that follow a run of their own session:
\* the loop of the delta model skips a cross-session gap.
\* Every adjacent pair, the session of its runs not looked at.
pairIndicesAcrossSessions(h) == [ i \in 1..(Len(h) - 1) |-> i + 1 ]

\* The indices i of the pairs (i - 1, i) of one session.
pairIndices(h) ==
    SelectSeq([ i \in 1..(Len(h) - 1) |-> i + 1 ],
              LAMBDA i : h[i].sessionId = h[i - 1].sessionId)

\* const MIN_DAY = 1 / (24 * 60)
MIN_DAY == Q(1, 24 * 60)

\* dtDays: Math.max(MIN_DAY, (hist[i].t - hist[i - 1].t) / DAY) per pair
dtDaysOf(h) ==
    LET ix == pairIndices(h)
    IN  [ k \in DOMAIN ix |-> QHi(MIN_DAY, Q(h[ix[k]].t - h[ix[k] - 1].t, DAY)) ]

\* deltas: ys[i] - ys[i - 1] per pair
deltasOf(h) ==
    LET ix == pairIndices(h)
    IN  [ k \in DOMAIN ix |-> QInt(h[ix[k]].score - h[ix[k] - 1].score) ]

\* The clipping from seven deltas on.
clipDeltasFromSeven(deltas) ==
    IF Len(deltas) >= 7
    THEN LET q1 == quantile(deltas, Q(25, 100))
             q3 == quantile(deltas, Q(75, 100))
             iqr == QHi(QInt(1), QMinus(q3, q1))
         IN  [ i \in DOMAIN deltas |->
                 clamp(deltas[i], QMinus(q1, QTimes(Q(15, 10), iqr)),
                                  QPlus(q3, QTimes(Q(15, 10), iqr))) ]
    ELSE deltas

\* Robustify deltas: clip to [q1 - 1.5 iqr, q3 + 1.5 iqr] from six deltas on.
clipDeltas(deltas) ==
    IF Len(deltas) >= 6
    THEN LET q1 == quantile(deltas, Q(25, 100))
             q3 == quantile(deltas, Q(75, 100))
             iqr == QHi(QInt(1), QMinus(q3, q1))
         IN  [ i \in DOMAIN deltas |->
                 clamp(deltas[i], QMinus(q1, QTimes(Q(15, 10), iqr)),
                                  QPlus(q3, QTimes(Q(15, 10), iqr))) ]
    ELSE deltas

\* pos, meanPos, stdPos of the (clipped) deltas
positiveDeltaStats(deltas) ==
    LET pos == [ i \in DOMAIN deltas |-> QHi(QZero, deltas[i]) ]
        cnt == IMax(1, Len(pos))
        meanPos == QOver(QTotal(pos), QInt(cnt))
        varPos == QOver(QTotal([ i \in DOMAIN pos |->
                                   QTimes(QMinus(pos[i], meanPos), QMinus(pos[i], meanPos)) ]),
                        QInt(cnt))
    IN  [meanPos |-> meanPos, stdPos |-> QSqrt(QHi(QZero, varPos))]

\* Math.max(1, Math.round(best * 0.003))
deficitMarginOf(best) == IMax(1, QRound(Q(3 * best, 1000)))

\* Math.max(1, Math.round(best * 0.0002))
epsImprovementOf(best) == IMax(1, QRound(Q(2 * best, 10000)))

\* confScore > 0.6 ? 'high' : (confScore > 0.3 ? 'med' : 'low')
confidenceOf(confScore) ==
    IF QLess(Q(6, 10), confScore) THEN "high"
    ELSE IF QLess(Q(3, 10), confScore) THEN "med"
    ELSE "low"

\* The fit when there are fewer than two pairs.
NoFit == [a |-> QZero, b |-> QZero, r2 |-> QZero]

\* What fitDeltaVsPause can return: the initial best, a = b = 0 with r2 = 0,
\* or a regression of r2 > 0.
FitOutcomes ==
    { NoFit,
      [a |-> QInt(4), b |-> QZero, r2 |-> QInt(1)],
      [a |-> QInt(2), b |-> Q(-1, 2), r2 |-> Q(1, 2)] }

\* Values of 1 - exp(-d / tau).
XGrid == { Q(1, 4), QInt(1) }

\* a * x + b
expectedDeltaAtPause(a, b, x) == QPlus(QTimes(a, x), b)

\* The candidate of the search at pause d: null when the expected delta is at
\* most 1e-6, else the pause with runs = deficit / delta.
findOptimalPauseAndRuns(deficit, fit, dtMinDays, dtMaxDays, dtStepDays, search) ==
    LET steps == QFloor(QOver(QMinus(dtMaxDays, dtMinDays), dtStepDays))
        d == IF search.last /\ steps > 0
             THEN QPlus(dtMinDays, QTimes(QInt(steps), dtStepDays))
             ELSE dtMinDays
        delta == QHi(QZero, expectedDeltaAtPause(fit.a, fit.b, search.x))
    IN  IF QLeq(delta, Q(1, 1000000)) THEN NULL
        ELSE [dtDays |-> d, runs |-> QOver(QInt(deficit), delta), delta |-> delta]

MAX_RUNS_REASONABLE == 500

\* The unknown result with a pause of 0 hours in place of null.
unknownResultWithPause(n, best, lastScore, lastPlayedDays, reason) ==
    [etaTs |-> NULL, etaHuman |-> <<"unknown">>, runsExpected |-> NULL, runsLo |-> NULL,
     runsHi |-> NULL, optPauseHours |-> QZero, confidence |-> "low", sample |-> n,
     best |-> best, lastScore |-> lastScore, lastPlayedDays |-> lastPlayedDays,
     reason |-> reason]

\* return { etaTs: null, etaHuman: 'unknown', ... }
unknownResult(n, best, lastScore, lastPlayedDays, reason) ==
    [etaTs |-> NULL, etaHuman |-> <<"unknown">>, runsExpected |-> NULL, runsLo |-> NULL,
     runsHi |-> NULL, optPauseHours |-> NULL, confidence |-> "low", sample |-> n,
     best |-> best, lastScore |-> lastScore, lastPlayedDays |-> lastPlayedDays,
     reason |-> reason]

\* The shortcut not taken: the unknown result in its place.
nearBestSkipped(h, clock, dtDays, fit, best, lastPlayedDays) ==
    unknownResult(Len(h), best, h[Len(h)].score, lastPlayedDays,
                  "No upward trend detected yet")

\* The near-best shortcut.
nearBestResult(h, clock, dtDays, fit, best, lastPlayedDays) ==
    LET n == Len(h)
        soonPauseH == IMax(1, QRound(QTimes(quantile(dtDays, Q(25, 100)), QInt(24))))
        soonMs == QHi(QTimes(QInt(DAY), Q(25, 100)), QInt(soonPauseH * (60 * 60 * 1000)))
        sizeFactor == QLo(QInt(1), Q(Len(dtDays), 24))
        confScore == QHi(QZero, QLo(QInt(1), QPlus(QTimes(Q(4, 10), fit.r2),
                                                  QTimes(Q(6, 10), sizeFactor))))
    IN  [etaTs |-> QPlus(QInt(clock), soonMs), etaHuman |-> humanizeETA(soonMs),
         runsExpected |-> QInt(1), runsLo |-> QInt(1), runsHi |-> QInt(2),
         optPauseHours |-> QInt(soonPauseH), confidence |-> confidenceOf(confScore),
         sample |-> n, best |-> best, lastScore |-> h[n].score,
         lastPlayedDays |-> lastPlayedDays, reason |-> ""]

\* stability: meanPos > 1e-6 ? clamp(1 - min(2, stdPos / max(1, meanPos)), 0, 1) : 0
stabilityOf(st) ==
    IF QLess(Q(1, 1000000), st.meanPos)
    THEN clamp(QMinus(QInt(1), QLo(QInt(2), QOver(st.stdPos, QHi(QInt(1), st.meanPos)))),
               QZero, QInt(1))
    ELSE QZero

\* The range without its two floors: lo = floor(runs * (1 - widen)),
\* hi = ceil(runs * (1 + widen)).
runsRangeUnfloored(nRuns, widen) ==
    [lo |-> QFloor(QTimes(QInt(nRuns), QMinus(QInt(1), widen))),
     hi |-> QCeil(QTimes(QInt(nRuns), QPlus(QInt(1), widen)))]

\* lo = max(1, floor(runs * (1 - widen))), hi = max(lo + 1, ceil(runs * (1 + widen)))
runsRange(nRuns, widen) ==
    LET lo == IMax(1, QFloor(QTimes(QInt(nRuns), QMinus(QInt(1), widen))))
        hi == IMax(lo + 1, QCeil(QTimes(QInt(nRuns), QPlus(QInt(1), widen))))
    IN  [lo |-> lo, hi |-> hi]

\* The fallback's guard without its cap on the run count.
fallbackDegenerateFlatOnly(runsRaw, spr, epsImprovement) ==
    QLess(spr, QTimes(QInt(epsImprovement), Q(25, 100)))

\* runsRaw > MAX_RUNS_REASONABLE || spr < epsImprovement * 0.25 (runsRaw, a
\* quotient by spr >= 1e-6, is finite)
fallbackDegenerate(runsRaw, spr, epsImprovement) ==
    \/ QLess(QInt(MAX_RUNS_REASONABLE), runsRaw)
    \/ QLess(spr, QTimes(QInt(epsImprovement), Q(25, 100)))

\* The fallback estimator: robust recent improvement per run and the median
\* observed pause.
fallbackResult(h, clock, dtDays, st, best, deficit, epsImprovement, lastPlayedDays) ==
    LET n == Len(h)
        havePairs == Len(dtDays) >= 2
        med == IF havePairs THEN quantile(dtDays, Q(5, 10)) ELSE Q(5, 24 * 60)
        medDt == IF med = QZero THEN Q(5, 24 * 60) ELSE med
        spr == QHi(Q(1, 1000000), st.meanPos)
        runsRaw == QOver(QInt(deficit), spr)
    IN  IF fallbackDegenerate(runsRaw, spr, epsImprovement)
        THEN unknownResult(n, best, h[n].score, lastPlayedDays, "No upward trend detected yet")
        ELSE LET nRuns == QCeil(runsRaw)
                 sizeFactor == QLo(QInt(1), Q(Len(dtDays), 24))
                 stability == stabilityOf(st)
                 recencyPenalty == clamp(QOver(lastPlayedDays, QInt(21)), QZero, QInt(1))
                 confScore ==
                     clamp(QMinus(QPlus(Q(15, 100),
                                        QTimes(Q(55, 100),
                                               QPlus(QTimes(Q(6, 10), sizeFactor),
                                                     QTimes(Q(4, 10), stability)))),
                                  QTimes(Q(15, 100), recencyPenalty)),
                           QZero, QInt(1))
                 widen == QPlus(Q(28, 100),
                                QPlus(QTimes(Q(32, 100), QMinus(QInt(1), confScore)),
                                      QTimes(Q(12, 100), QMinus(QInt(1), stability))))
                 range == runsRange(nRuns, widen)
                 etaMs == QTimes(QTimes(QInt(IMax(1, nRuns)), medDt), QInt(DAY))
             IN  [etaTs |-> QPlus(QInt(clock), etaMs), etaHuman |-> humanizeETA(etaMs),
                  runsExpected |-> QInt(nRuns), runsLo |-> QInt(range.lo),
                  runsHi |-> QInt(range.hi),
                  optPauseHours |-> QInt(QRound(QTimes(medDt, QInt(24)))),
                  confidence |-> confidenceOf(confScore), sample |-> n, best |-> best,
                  lastScore |-> h[n].score, lastPlayedDays |-> lastPlayedDays,
                  reason |-> "Using robust recent trend"]

\* The rejection for want of a solution alone.
primaryRejectedNoSolutionOnly(opt, epsImprovement) == opt = NULL

\* !opt || opt.runs > MAX_RUNS_REASONABLE || opt.delta < epsImprovement
\* (opt.runs, when there is an opt, is finite)
primaryRejected(opt, epsImprovement) ==
    \/ opt = NULL
    \/ QLess(QInt(MAX_RUNS_REASONABLE), opt.runs)
    \/ QLess(opt.delta, QInt(epsImprovement))

\* The forecast of the fitted model at its optimal pause.
optimisedResult(h, clock, dtDays, st, fit, opt, best, lastPlayedDays) ==
    LET n == Len(h)
        nRuns == IMax(1, QCeil(opt.runs))
        etaMs == QTimes(QTimes(QInt(nRuns), opt.dtDays), QInt(DAY))
        sizeFactor == QLo(QInt(1), Q(Len(dtDays), 24))
        stability == stabilityOf(st)
        recencyPenalty == clamp(QOver(lastPlayedDays, QInt(21)), QZero, QInt(1))
        confScore ==
            clamp(QMinus(QPlus(QPlus(Q(15, 100),
                                     QTimes(Q(55, 100),
                                            QPlus(QTimes(Q(7, 10), fit.r2),
                                                  QTimes(Q(3, 10), sizeFactor)))),
                               QTimes(Q(3, 10), stability)),
                         QTimes(Q(2, 10), recencyPenalty)),
                  QZero, QInt(1))
        widen == QPlus(Q(22, 100),
                       QPlus(QTimes(Q(30, 100), QMinus(QInt(1), confScore)),
                             QTimes(Q(12, 100), QMinus(QInt(1), stability))))
        range == runsRange(nRuns, widen)
        optPauseHours == QHi(Q(1, 60), QLo(QTimes(opt.dtDays, QInt(24)),
                                           Q(SESSION_GAP_MIN, 60)))
    IN  [etaTs |-> QPlus(QInt(clock), etaMs), etaHuman |-> humanizeETA(etaMs),
         runsExpected |-> QInt(nRuns), runsLo |-> QInt(range.lo), runsHi |-> QInt(range.hi),
         optPauseHours |-> optPauseHours, confidence |-> confidenceOf(confScore),
         sample |-> n, best |-> best, lastScore |-> h[n].score,
         lastPlayedDays |-> lastPlayedDays, reason |-> ""]

\* The guard for short histories one run short: three runs are enough.
insufficientDataBelowThree(n) == n < 3

\* if (n < 4)
insufficientData(n) == n < 4

\* The locals of predictNextHighscore once hist = collectScenarioHistory(items,
\* name) is known: clock is now = Date.now(), fitOutcome what fitDeltaVsPause
\* returns for this history and search what the grid search meets.  With
\* insufficient data there is n alone.
predictLocals(h, clock, fitOutcome, search) ==
    LET n == Len(h) IN
    IF insufficientData(n) THEN [n |-> n]
    ELSE
    LET best == CHOOSE b \in { h[i].score : i \in DOMAIN h } :
                    \A i \in DOMAIN h : h[i].score <= b
        last == h[n]
        dtDays == dtDaysOf(h)
        havePairs == Len(dtDays) >= 2
        deficitMargin == deficitMarginOf(best)
        target == best + deficitMargin
        deficit == target - last.score
        sessionGapDays == Q(SESSION_GAP_MIN, 24 * 60)
        dtMinObs == IF havePairs
                    THEN QHi(Q(1, 24 * 60), QTimes(quantile(dtDays, Q(1, 10)), Q(7, 10)))
                    ELSE Q(2, 24 * 60)
        dtMaxObs == IF havePairs
                    THEN QHi(QTimes(dtMinObs, Q(12, 10)),
                             QLo(sessionGapDays,
                                 QTimes(quantile(dtDays, Q(9, 10)), Q(14, 10))))
                    ELSE QLo(sessionGapDays, Q(15, 24 * 60))
        dtStepDays == QHi(Q(1, 2 * 24 * 60), QOver(QMinus(dtMaxObs, dtMinObs), QInt(60)))
        fit == IF havePairs THEN fitOutcome ELSE NoFit
        st == positiveDeltaStats(clipDeltas(deltasOf(h)))
    IN  [n |-> n, best |-> best, last |-> last,
         lastPlayedDays |-> Q(clock - last.t, DAY),
         dtDays |-> dtDays, rawDeltas |-> deltasOf(h), deltas |-> clipDeltas(deltasOf(h)),
         havePairs |-> havePairs, meanPos |-> st.meanPos, stdPos |-> st.stdPos,
         fit |-> fit, deficit |-> deficit, epsImprovement |-> epsImprovementOf(best),
         opt |-> findOptimalPauseAndRuns(deficit, fit, dtMinObs, dtMaxObs, dtStepDays, search),
         runsRaw |-> QOver(QInt(deficit), QHi(Q(1, 1000000), st.meanPos))]

\* The result of predictNextHighscore from its locals L.
predictResult(h, clock, L) ==
    IF insufficientData(L.n)
    THEN unknownResult(L.n, 0, 0, QZero, "Need at least 4 runs")
    ELSE LET st == [meanPos |-> L.meanPos, stdPos |-> L.stdPos] IN
         IF L.best - L.last.score <= L.epsImprovement
         THEN nearBestResult(h, clock, L.dtDays, L.fit, L.best, L.lastPlayedDays)
         ELSE IF primaryRejected(L.opt, L.epsImprovement)
         THEN fallbackResult(h, clock, L.dtDays, st, L.best, L.deficit, L.epsImprovement,
                             L.lastPlayedDays)
         ELSE optimisedResult(h, clock, L.dtDays, st, L.fit, L.opt, L.best, L.lastPlayedDays)

predictNextHighscore(its, name, clock, fitOutcome, search) ==
    LET h == collectScenarioHistory(its, name, clock)
    IN  predictResult(h, clock, predictLocals(h, clock, fitOutcome, search))

----------------------------------------------------------------------------
(* lib/analysis/sessionLength.ts                                           *)
(*                                                                         *)
(* A record of a session carries, besides Scenario and fnScenario:         *)
(*   Score       Number(stats['Score'] ?? 0), NaN when not finite          *)
(*   Accuracy    Number(stats['Accuracy'] ?? 0) in hundredths, or NaN      *)
(*   DatePlayed  Date.parse(stats['Date Played']), an instant              *)
(* The records of the model all carry a Date Played that parses.           *)

metricOf(r, m) ==
    IF m = "score"
    THEN (IF isFinite(r.Score) THEN QInt(r.Score) ELSE QZero)
    ELSE (IF isFinite(r.Accuracy) THEN QMul(Q(r.Accuracy, 100), QInt(100)) ELSE QZero)

\* [...items].sort by Date.parse(Date Played), oldest first
sortByDatePlayed(its) ==
    LET keyed == [ i \in DOMAIN its |-> <<its[i].DatePlayed, its[i]>> ]
        sorted == StableSort(keyed)
    IN  [ i \in DOMAIN sorted |-> sorted[i][2] ]

RECURSIVE collectRunsBySession(_, _)
collectRunsBySession(sess, scenarioName) ==
    IF sess = <<>> THEN <<>>
    ELSE LET its == SelectSeq(Head(sess).items,
                              LAMBDA it : getScenarioName(it) = scenarioName)
             rest == collectRunsBySession(Tail(sess), scenarioName)
         IN  IF Len(its) = 0 THEN rest
             ELSE <<sortByDatePlayed(its)>> \o rest

\* The length of the first session in place of the longest.
firstLenOf(rs) == IF rs = <<>> THEN 0 ELSE Len(rs[1])

\* runs.reduce((m, r) => Math.max(m, r.length), 0)
RECURSIVE maxLenOf(_)
maxLenOf(rs) ==
    IF rs = <<>> THEN 0
    ELSE LET m == maxLenOf(SubSeq(rs, 1, Len(rs) - 1))
             l == Len(rs[Len(rs)])
         IN  IF l > m THEN l ELSE m

\* The sum in place of the mean.
sumOf(vals) == QSum(vals)

\* vals.length ? sum / vals.length : 0
meanOf(vals) == IF Len(vals) > 0 THEN QDivInt(QSum(vals), Len(vals)) ELSE QZero

\* vals.length ? sum((b - m)^2) / vals.length : 0
varianceOf(vals, m) ==
    IF Len(vals) > 0
    THEN QDivInt(QSum([ i \in DOMAIN vals |-> QMul(QSub(vals[i], m), QSub(vals[i], m)) ]),
                 Len(vals))
    ELSE QZero

\* The metric at 0-based index j of every session that has one.
valsAtIndex(rs, m, j) ==
    LET has == SelectSeq(rs, LAMBDA sessRuns : j < Len(sessRuns))
    IN  [ i \in DOMAIN has |-> metricOf(has[i][j + 1], m) ]

\* The loop of expectedByIndex from index j on, mean and std as pushed so far.
RECURSIVE expectedByIndexFrom(_, _, _, _, _, _)
expectedByIndexFrom(rs, m, j, maxLen, mean, std) ==
    IF ~(j < maxLen) THEN [mean |-> mean, std |-> std]
    ELSE LET vals == valsAtIndex(rs, m, j)
             mu == meanOf(vals)
             variance == varianceOf(vals, mu)
         IN  expectedByIndexFrom(rs, m, j + 1, maxLen,
                                 Append(mean, mu), Append(std, QSqrt(variance)))

expectedByIndex(rs, m) == expectedByIndexFrom(rs, m, 0, maxLenOf(rs), <<>>, <<>>)

\* sessRuns.slice(0, Math.min(L, sessRuns.length)).map(metricOf)
prefixVals(sessRuns, m, L) ==
    LET k == IF L < Len(sessRuns) THEN L ELSE Len(sessRuns)
    IN  [ i \in 1..k |-> metricOf(sessRuns[i], m) ]

\* The maxima of the sessions of length >= L only: an exhausted session drops out.
bestsAtFullLength(rs, m, L) ==
    LET long == SelectSeq(rs, LAMBDA sessRuns : Len(sessRuns) >= L)
    IN  [ k \in DOMAIN long |->
            QMaxOf([ i \in 1..L |-> metricOf(long[k][i], m) ]) ]

\* The per-session maxima over the first min(L, length) runs.
RECURSIVE bestsAt(_, _, _)
bestsAt(rs, m, L) ==
    IF rs = <<>> THEN <<>>
    ELSE LET vals == prefixVals(Head(rs), m, L)
             rest == bestsAt(Tail(rs), m, L)
         IN  IF Len(vals) > 0 THEN <<QMaxOf(vals)>> \o rest ELSE rest

\* The loop of expectedBestVsLength from length L on.
RECURSIVE expectedBestVsLengthFrom(_, _, _, _, _)
expectedBestVsLengthFrom(rs, m, L, maxLen, curve) ==
    IF ~(L <= maxLen) THEN curve
    ELSE expectedBestVsLengthFrom(rs, m, L + 1, maxLen,
                                  Append(curve, meanOf(bestsAt(rs, m, L))))

expectedBestVsLength(rs, m) == expectedBestVsLengthFrom(rs, m, 1, maxLenOf(rs), <<>>)

\* v.length ? (n odd ? v[mid] : (v[mid-1] + v[mid]) / 2) : 0, v sorted
median(arr) ==
    LET v == QSort(arr)
        n == Len(v)
        mid == n \div 2
    IN  IF n = 0 THEN QZero
        ELSE IF n % 2 = 1 THEN v[mid + 1]
        ELSE QDivInt(QAdd(v[mid], v[mid + 1]), 2)

\* Math.ceil(a / b) for a >= 0, b > 0
CeilDiv(a, b) == (a + b - 1) \div b

\* nearest-rank percentile: v[min(n - 1, max(0, ceil(p / 100 * n) - 1))]
percentile(arr, pct) ==
    LET v == QSort(arr)
        n == Len(v)
        clamped == IF pct > 100 THEN 100 ELSE IF pct < 0 THEN 0 ELSE pct
        rank == CeilDiv(clamped * n, 100) - 1
        idx == IF rank < 0 THEN 0 ELSE IF rank > n - 1 THEN n - 1 ELSE rank
    IN  IF n = 0 THEN QZero ELSE v[idx + 1]

\* The prefix averages over the first L runs of every session of length >= L.
RECURSIVE avgsAt(_, _, _)
avgsAt(rs, m, L) ==
    IF rs = <<>> THEN <<>>
    ELSE LET rest == avgsAt(Tail(rs), m, L)
         IN  IF Len(Head(rs)) >= L
             THEN <<meanOf(prefixVals(Head(rs), m, L))>> \o rest
             ELSE rest

NoStats ==
    [mean |-> <<>>, min |-> <<>>, max |-> <<>>, std |-> <<>>,
     p10 |-> <<>>, p90 |-> <<>>, count |-> <<>>]

\* The loop of expectedAvgVsLength from length L on.
RECURSIVE expectedAvgVsLengthFrom(_, _, _, _, _)
expectedAvgVsLengthFrom(rs, m, L, maxLen, st) ==
    IF ~(L <= maxLen) THEN st
    ELSE LET avgs == avgsAt(rs, m, L)
             n == Len(avgs)
             mu == meanOf(avgs)
         IN  expectedAvgVsLengthFrom(rs, m, L + 1, maxLen,
                 IF n = 0
                 THEN [mean |-> Append(st.mean, QZero), min |-> Append(st.min, QZero),
                       max |-> Append(st.max, QZero), std |-> Append(st.std, QZero),
                       p10 |-> Append(st.p10, QZero), p90 |-> Append(st.p90, QZero),
                       count |-> Append(st.count, n)]
                 ELSE [mean |-> Append(st.mean, mu),
                       min |-> Append(st.min, QMinOf(avgs)),
                       max |-> Append(st.max, QMaxOf(avgs)),
                       std |-> Append(st.std, QSqrt(QMax(QZero, varianceOf(avgs, mu)))),
                       p10 |-> Append(st.p10, percentile(avgs, 10)),
                       p90 |-> Append(st.p90, percentile(avgs, 90)),
                       count |-> Append(st.count, n)])

expectedAvgVsLength(rs, m) == expectedAvgVsLengthFrom(rs, m, 1, maxLenOf(rs), NoStats)

\* A for loop that breaks at the first index satisfying its test, S being the
\* indices of the loop that satisfy it: that index, or dflt when the loop
\* runs to its end.
FirstIndexOr(S, dflt) ==
    IF S # {} THEN CHOOSE i \in S : \A k \in S : i <= k ELSE dflt

\* The index kept by: if (v > bestVal) { bestVal = v; bestIdx = i }, from
\* -Infinity, over a non-empty array: the first index of the maximum.
FirstArgMax(s) ==
    CHOOSE i \in DOMAIN s :
        /\ \A k \in DOMAIN s : QLe(s[k], s[i])
        /\ \A k \in 1..(i - 1) : QLt(s[k], s[i])

\* The average taken over all the lengths up to L, not the last three.
windowMeanFromStart(arr, L) == meanOf(SubSeq(arr, 1, L))

\* window.reduce((a, b) => a + b, 0) / window.length over
\* arr.slice(L - Math.min(3, L), L)
windowMean(arr, L) ==
    LET k == IF L < 3 THEN L ELSE 3
    IN  meanOf(SubSeq(arr, L - k + 1, L))

\* 0.01 * (x || 1)
onePercentOf(x) == QMul(Q(1, 100), IF x = QZero THEN QInt(1) ELSE x)

\* Warm-up with the boundary reported one run late.
warmupRunsLate(mean, std) ==
    LET n == Len(mean)
        absSlopes == [ k \in 1..(n - 1) |-> QAbs(QSub(mean[k + 1], mean[k])) ]
        slopeMed == median(absSlopes)
        stdMed == median(std)
    IN  FirstIndexOr({ i \in 1..(n - 1) :
                         QLe(absSlopes[i], slopeMed) /\ QLe(std[i + 1], stdMed) },
                     -1) + 2

\* Warm-up decided by the slope alone, the spread not looked at.
warmupRunsSlopeOnly(mean, std) ==
    LET n == Len(mean)
        absSlopes == [ k \in 1..(n - 1) |-> QAbs(QSub(mean[k + 1], mean[k])) ]
        slopeMed == median(absSlopes)
    IN  FirstIndexOr({ i \in 1..(n - 1) : QLe(absSlopes[i], slopeMed) }, 0) + 1

\* recommendLengths, warm-up: i is the 0-based index of the loop.
warmupRuns(mean, std) ==
    LET n == Len(mean)
        absSlopes == [ k \in 1..(n - 1) |-> QAbs(QSub(mean[k + 1], mean[k])) ]
        slopeMed == median(absSlopes)
        stdMed == median(std)
    IN  FirstIndexOr({ i \in 1..(n - 1) :
                         /\ QLe(absSlopes[i], slopeMed)
                         /\ QLe(IF i + 1 \in DOMAIN std THEN std[i + 1] ELSE stdMed,
                                stdMed) },
                     0) + 1

\* The optimal average taken at the peak itself, no shorter length looked for.
optimalAvgRunsAtPeak(mean, stats) ==
    IF Len(stats.mean) > 0 THEN FirstArgMax(stats.mean)
    ELSE IF Len(mean) = 0 THEN 1
    ELSE FirstArgMax([ L \in 1..Len(mean) |-> QDivInt(QSum(SubSeq(mean, 1, L)), L) ])

\* recommendLengths, optimal average.
optimalAvgRuns(mean, stats) ==
    IF Len(stats.mean) > 0
    THEN LET bestVal == stats.mean[FirstArgMax(stats.mean)]
             eps == onePercentOf(QAbs(bestVal))
         IN  FirstIndexOr({ L \in 1..Len(stats.mean) :
                              QLe(QSub(bestVal, stats.mean[L]), eps) }, 1)
    ELSE LET n == Len(mean)
             cum == [ L \in 1..n |-> QDivInt(QSum(SubSeq(mean, 1, L)), L) ]
         IN  IF n = 0 THEN 1
             ELSE LET bestL == FirstArgMax(cum)
                      bestVal == cum[bestL]
                      eps == onePercentOf(bestVal)
                  IN  FirstIndexOr({ L \in 1..n : QLe(QSub(bestVal, cum[L]), eps) },
                                   bestL)

\* recommendLengths, consistency.
optimalConsistentRuns(mean, std, stats) ==
    LET n == Len(mean)
    IN  IF Len(stats.mean) > 0
        THEN LET variability == [ i \in DOMAIN stats.mean |->
                                    QMax(QZero, QSub(stats.p90[i], stats.p10[i])) ]
                 varMed == median(variability)
             IN  FirstIndexOr({ L \in 2..Len(variability) :
                                  QLe(windowMean(variability, L), varMed) }, n)
        ELSE LET stdMed == median(std)
             IN  FirstIndexOr({ L \in 2..n : QLe(windowMean(std, L), stdMed) }, n)

\* The highscore length taken at the peak itself, no shorter length looked for.
optimalHighscoreRunsAtPeak(best) == IF Len(best) = 0 THEN 1 ELSE FirstArgMax(best)

\* recommendLengths, highscore.
optimalHighscoreRuns(best) ==
    IF Len(best) = 0 THEN 1
    ELSE LET hsBestL == FirstArgMax(best)
             hsBest == best[hsBestL]
             hsEps == onePercentOf(hsBest)
             next(L) == IF L + 1 \in DOMAIN best THEN best[L + 1] ELSE best[L]
             marginal(L) == IF hsBest # QZero
                            THEN QDiv(QSub(next(L), best[L]), hsBest)
                            ELSE QZero
         IN  FirstIndexOr({ L \in 1..Len(best) :
                              /\ QLe(QSub(hsBest, best[L]), hsEps)
                              /\ QLt(marginal(L), Q(2, 100)) },
                          hsBestL)

recommendLengths(byIndex, best, stats) ==
    [warmupRuns |-> warmupRuns(byIndex.mean, byIndex.std),
     optimalAvgRuns |-> optimalAvgRuns(byIndex.mean, stats),
     optimalConsistentRuns |-> optimalConsistentRuns(byIndex.mean, byIndex.std, stats),
     optimalHighscoreRuns |-> optimalHighscoreRuns(best)]

----------------------------------------------------------------------------
(* What a call leaves of the arrays it was handed.  A JavaScript array is  *)
(* passed by reference: Array.prototype.sort orders the array it is called *)
(* on, while filter, slice, map and the spread [...a] build a new one.     *)

\* sess.items after collectRunsBySession, had the sort been called on it.
itemsSortedInPlace(its) == sortByDatePlayed(its)

\* sess.items after collectRunsBySession: filter builds `items`, the spread
\* builds the array that sort orders; sess.items is only read.
itemsLeftByCollectRuns(its) == its

sessionsLeftByCollectRuns(sess) ==
    [ i \in DOMAIN sess |-> [sess[i] EXCEPT !.items = itemsLeftByCollectRuns(@)] ]

\* arr after median(arr), had the sort been called on it.
arrSortedByMedian(arr) == QSort(arr)

\* arr after median(arr) or percentile(arr, p): filter(...).slice() builds
\* the array that sort orders; arr is only read.
arrLeftByMedian(arr) == arr

\* byIndex after recommendLengths: mean and std are read by index, std.slice
\* builds each window, and median(std) is the one call handed an array of it;
\* it comes before every read of std, which sees the array as median left it.
byIndexLeftByRecommend(byIndex) ==
    [mean |-> byIndex.mean, std |-> arrLeftByMedian(byIndex.std)]

\* items after collectScenarioHistory, had the sort been called on it.
itemsSortedByCollectHistory(its, clock) ==
    LET keyed == [ i \in DOMAIN its |-> <<parseRecordTimestamp(its[i], clock), its[i]>> ]
        sorted == StableSort(keyed)
    IN  [ i \in DOMAIN sorted |-> sorted[i][2] ]

\* items after collectScenarioHistory: the loop reads each record into a new
\* object of `filtered`, and filtered is the array that sort orders.
itemsLeftByCollectHistory(its, clock) == its

----------------------------------------------------------------------------
(* Inputs of the history model                                             *)

MaxItems == 3
MaxTicks == 1

Name == "X"

\* A record stamped by its file name (fts) or by a Date Played that Date.parse
\* reads (parsed), with no Challenge Start.
Rec(sc, fn, fts, parsed, score) ==
    [Scenario |-> sc, fnScenario |-> fn, fileTs |-> fts, dateYmd |-> NO_MATCH,
     startTime |-> NO_MATCH, dateParsed |-> parsed, Score |-> score]

HistRecords ==
    { Rec("X", "X", 0, NaN, 10),
      Rec("X", "X", gapMs, NaN, 20),
      Rec("X", "X", NO_MATCH, gapMs + 1, 10),
      Rec("X", "X", NO_MATCH, 2 * gapMs + 1, 10),
      Rec("X", "X", NO_MATCH, NaN, 20),
      Rec("X", "X", gapMs, NaN, NaN),
      Rec("Y", "Y", gapMs, NaN, 10),
      Rec("", "X", gapMs, NaN, 10) }

\* The clock starts after every recorded instant.
Now0 == 3 * gapMs + 1

NoStampState ==
    /\ record = Rec("", "", NO_MATCH, NaN, NaN)
    /\ ts = NO_MATCH
    /\ resolved = FALSE
    /\ resolvedAt = 0

\* The request ids NewRequestID has handed out.
ReqIDs == { "r1", "r2" }

NoAIState ==
    /\ pc = [ r \in ReqIDs |-> "idle" ]
    /\ cancels = {}
    /\ ctxDone = [ r \in ReqIDs |-> FALSE ]
    /\ events = <<>>
    /\ cancelAsked = [ r \in ReqIDs |-> FALSE ]

NoNumericState ==
    /\ pointsX = <<>>
    /\ pointsY = <<>>
    /\ pointsW = <<>>
    /\ values = <<>>
    /\ reg = NULL
    /\ summary = NULL

NoPredictState ==
    /\ fitOut = NoFit
    /\ searchOut = [x |-> QInt(1), last |-> FALSE]
    /\ locals = [n |-> 0]
    /\ pred = NULL
    /\ predicted = FALSE
    /\ predAt = 0
    /\ pred2 = NULL
    /\ predicted2 = FALSE
    /\ predAt2 = 0

NoLengthState ==
    /\ sessions = <<>>
    /\ metric = "score"
    /\ runs = <<>>
    /\ byIdx = [mean |-> <<>>, std |-> <<>>]
    /\ bestVsL = <<>>
    /\ lengthStats = NoStats
    /\ rec = <<>>
    /\ stage = "input"

InitHistory ==
    /\ items \in SeqsUpTo(HistRecords, MaxItems)
    /\ now = Now0
    /\ ticks = 0
    /\ hist = <<>>
    /\ called = FALSE
    /\ calledAt = 0
    /\ hist2 = <<>>
    /\ called2 = FALSE
    /\ calledAt2 = 0
    /\ shuffled = items
    /\ NoLengthState
    /\ NoStampState
    /\ NoPredictState
    /\ NoNumericState
    /\ NoAIState

\* predictNextHighscore's first step: hist = collectScenarioHistory(items, name)
Collect ==
    /\ ~called
    /\ hist' = collectScenarioHistory(items, Name, now)
    /\ called' = TRUE
    /\ calledAt' = now
    /\ items' = itemsLeftByCollectHistory(items, now)
    /\ UNCHANGED <<now, ticks, shuffled, hist2, called2, calledAt2>>
    /\ UNCHANGED besidesHistory

\* The same call on a shuffled copy of the same records.
CollectShuffled ==
    /\ called
    /\ ~called2
    /\ \E p \in PermsOf(Len(items)) :
          /\ shuffled' = [ i \in DOMAIN items |-> items[p[i]] ]
          /\ hist2' = collectScenarioHistory(shuffled', Name, now)
    /\ called2' = TRUE
    /\ calledAt2' = now
    /\ UNCHANGED <<items, now, ticks, hist, called, calledAt>>
    /\ UNCHANGED besidesHistory

\* Time passes.
Tick ==
    /\ ticks < MaxTicks
    /\ now' = now + 1
    /\ ticks' = ticks + 1
    /\ UNCHANGED <<items, hist, called, calledAt, shuffled, hist2, called2, calledAt2>>
    /\ UNCHANGED besidesHistory

NextHistory == Collect \/ CollectShuffled \/ Tick

SpecHistory == InitHistory /\ [][NextHistory]_vars

----------------------------------------------------------------------------
(* Properties of the session walk                                          *)

\* Timestamps oldest -> newest.
SortedByT(h) == \A i \in 1..(Len(h) - 1) : h[i].t <= h[i + 1].t

\* The records of the requested scenario, and those among them the walk keeps.
OfScenario(its) == { i \in DOMAIN its : getScenarioName(its[i]) = Name }
Kept(its) == { i \in OfScenario(its) : isFinite(its[i].Score) }

\* C1: two chronologically adjacent runs of the scenario share a sessionId
\* iff their timestamps differ by at most the gap threshold: exactly the
\* threshold apart is the same session, threshold + 1 ms apart is a new one.
GapThresholdBoundary ==
    called =>
        \A i \in 1..(Len(hist) - 1) :
            (hist[i].sessionId = hist[i + 1].sessionId)
                <=> (hist[i + 1].t - hist[i].t <= gapMs)

\* A history holding a pair exactly the threshold apart in one session and a
\* pair threshold + 1 ms apart in two sessions.
GapThresholdBoundaryWitness ==
    /\ called
    /\ \E i \in 1..(Len(hist) - 1) :
          /\ hist[i + 1].t - hist[i].t = gapMs
          /\ hist[i].sessionId = hist[i + 1].sessionId
    /\ \E i \in 1..(Len(hist) - 1) :
          /\ hist[i + 1].t - hist[i].t = gapMs + 1
          /\ hist[i].sessionId # hist[i + 1].sessionId

\* The session partitioning of a history computed at instant at: which run,
\* named by the timestamp its record resolves to (NO_MATCH for a record that
\* resolves to none and carries the clock instead) and its score, is in which
\* session.
Partitioning(h, at) ==
    BagOfSeq([ i \in DOMAIN h |->
                 [key |-> IF h[i].t = at THEN NO_MATCH ELSE h[i].t,
                  score |-> h[i].score,
                  sessionId |-> h[i].sessionId] ])

\* C2: the walk run again on a shuffled copy of the same records returns a
\* history sorted by timestamp with the same session partitioning: the same
\* records grouped into the same sessions.
ShuffleSamePartition ==
    (called /\ called2) =>
        /\ SortedByT(hist)
        /\ SortedByT(hist2)
        /\ Partitioning(hist, calledAt) = Partitioning(hist2, calledAt2)

\* The instants of the full, unfiltered record stream at the time of the call.
FullStream == { parseRecordTimestamp(items[i], calledAt) : i \in DOMAIN items }

\* No two consecutive records of the full stream from instant a up to instant
\* b are more than the gap threshold apart.
NoCrossingBetween(a, b) ==
    \A x \in FullStream :
        (a <= x /\ x < b) =>
            LET later == { y \in FullStream : y > x }
                succ == CHOOSE y \in later : \A z \in later : y <= z
            IN  succ - x <= gapMs

\* C3: session boundaries are cut on the full unfiltered stream: two runs of
\* the scenario are in one session iff the full stream does not cross the
\* threshold between them.
FullStreamSessions ==
    called =>
        \A i, j \in DOMAIN hist :
            i < j =>
                ((hist[i].sessionId = hist[j].sessionId)
                    <=> NoCrossingBetween(hist[i].t, hist[j].t))

\* A record whose timestamp resolves from its file name or its Date Played.
Parseable(it) ==
    it.fileTs # NO_MATCH \/ it.dateYmd # NO_MATCH \/ isFinite(it.dateParsed)

\* C4: records with an unparseable timestamp are excluded before sorting: the
\* history is the one the parseable records alone produce.
UnparseableExcluded ==
    called =>
        hist = collectScenarioHistory(SelectSeq(items, Parseable), Name, calledAt)

\* C5 as stated: one history entry per input record of the requested scenario.
OneEntryPerScenarioRecord ==
    called => Len(hist) = Cardinality(OfScenario(items))

\* C5 (amended): one history entry per input record of the requested scenario
\* whose Score is finite, carrying that record's timestamp and score, and none
\* of another scenario; timestamps non-decreasing; the first sessionId is 1
\* and each next one is the previous one or the previous one plus 1.
OneSessionPerRun ==
    called =>
        /\ Len(hist) = Cardinality(Kept(items))
        /\ BagOfSeq([ i \in DOMAIN hist |-> <<hist[i].t, hist[i].score>> ])
             = BagOfSeq(LET k == SelectSeq(items,
                                   LAMBDA it : getScenarioName(it) = Name /\ isFinite(it.Score))
                        IN  [ i \in DOMAIN k |->
                                <<parseRecordTimestamp(k[i], calledAt), k[i].Score>> ])
        /\ SortedByT(hist)
        /\ (hist # <<>> => hist[1].sessionId = 1)
        /\ \A i \in 1..(Len(hist) - 1) :
              hist[i + 1].sessionId \in { hist[i].sessionId, hist[i].sessionId + 1 }

\* A history of several sessions, out of records given newest first, with a
\* record of another scenario and one with a non-finite Score left out.
OneSessionPerRunWitness ==
    /\ called
    /\ Len(hist) >= 2
    /\ hist[Len(hist)].sessionId >= 2
    /\ Len(hist) < Len(items)
    /\ parseRecordTimestamp(items[1], calledAt) > hist[1].t

----------------------------------------------------------------------------
(* Inputs and steps of the session-length model (SessionLengthInsights)    *)

MaxPlays == 5

MINUTE == 60000

SessRec(sc, score, acc) ==
    [Scenario |-> sc, fnScenario |-> sc, Score |-> score, Accuracy |-> acc, DatePlayed |-> 0]

\* The runs a player can add: a scored run of the scenario, a run of the
\* scenario whose Score is not a number, and a run of another scenario.
RunKinds ==
    { SessRec("X", 10, 50), SessRec("X", NaN, 75), SessRec("Y", 20, 50) }

Orders == { "oldestFirst", "newestFirst" }

Reverse(sq) == [ i \in DOMAIN sq |-> sq[Len(sq) + 1 - i] ]

\* The runs in play order, one minute apart.
Dated(plays) == [ i \in DOMAIN plays |-> [plays[i] EXCEPT !.DatePlayed = i * MINUTE] ]

\* Cut the dated runs into sessions: a new one starts at index 1 and at every
\* index of B.
RECURSIVE splitSessions(_, _, _, _)
splitSessions(recs, i, B, acc) ==
    IF i > Len(recs) THEN acc
    ELSE IF i = 1 \/ i \in B
         THEN splitSessions(recs, i + 1, B, Append(acc, <<recs[i]>>))
         ELSE splitSessions(recs, i + 1, B,
                            [acc EXCEPT ![Len(acc)] = Append(@, recs[i])])

\* Session[]: each session holds its items oldest or newest first.
BuildSessions(plays, B, order) ==
    LET groups == splitSessions(Dated(plays), 1, B, <<>>)
    IN  [ k \in DOMAIN groups |->
            [items |-> IF order = "newestFirst" THEN Reverse(groups[k]) ELSE groups[k]] ]

\* Two sessions of runs of the scenario, given by their scores alone (no
\* Accuracy recorded).
ScoredSessions(scores) ==
    BuildSessions([ i \in DOMAIN scores[1] |-> SessRec("X", scores[1][i], NaN) ]
                      \o [ i \in DOMAIN scores[2] |-> SessRec("X", scores[2][i], NaN) ],
                  { Len(scores[1]) + 1 }, "newestFirst")

\* Section 8.4 of the specification: sessions [10,20,15] and [5,25].
BestOfLengthExample == ScoredSessions(<< <<10, 20, 15>>, <<5, 25>> >>)

\* Two sessions of three runs each: scores [100,110,105] and [90,120,130].
EndToEndExample == ScoredSessions(<< <<100, 110, 105>>, <<90, 120, 130>> >>)

SessionInputs ==
    { BuildSessions(p, B, o) :
        p \in SeqsUpTo(RunKinds, MaxPlays), B \in SUBSET (2..MaxPlays), o \in Orders }
    \cup { BestOfLengthExample, EndToEndExample }

NoHistoryState ==
    /\ items = <<>>
    /\ now = Now0
    /\ ticks = 0
    /\ hist = <<>>
    /\ called = FALSE
    /\ calledAt = 0
    /\ shuffled = <<>>
    /\ hist2 = <<>>
    /\ called2 = FALSE
    /\ calledAt2 = 0

InitLength ==
    /\ sessions \in SessionInputs
    /\ metric = "score"
    /\ runs = <<>>
    /\ byIdx = [mean |-> <<>>, std |-> <<>>]
    /\ bestVsL = <<>>
    /\ lengthStats = NoStats
    /\ rec = <<>>
    /\ stage = "input"
    /\ NoHistoryState
    /\ NoStampState
    /\ NoPredictState
    /\ NoNumericState
    /\ NoAIState

\* One render of SessionLengthInsights: the useMemo chain
\* runs -> byIdx, bestVsL -> rec.
Render ==
    /\ stage = "input"
    /\ runs' = collectRunsBySession(sessions, Name)
    /\ sessions' = sessionsLeftByCollectRuns(sessions)
    /\ bestVsL' = expectedBestVsLength(runs', metric)
    /\ byIdx' = byIndexLeftByRecommend(expectedByIndex(runs', metric))
    /\ rec' = recommendLengths(byIdx', bestVsL', NoStats)
    /\ stage' = "rendered"
    /\ UNCHANGED <<metric, lengthStats>>
    /\ UNCHANGED besidesLength

\* setMetric: the curves and the recommendation are recomputed for the metric.
SetMetric ==
    /\ stage = "rendered"
    /\ metric' = IF metric = "score" THEN "acc" ELSE "score"
    /\ bestVsL' = expectedBestVsLength(runs, metric')
    /\ byIdx' = byIndexLeftByRecommend(expectedByIndex(runs, metric'))
    /\ rec' = recommendLengths(byIdx', bestVsL', NoStats)
    /\ lengthStats' = NoStats
    /\ UNCHANGED <<sessions, runs, stage>>
    /\ UNCHANGED besidesLength

\* recommendLengths fed with the per-length statistics of the same runs.
RecommendWithStats ==
    /\ stage = "rendered"
    /\ lengthStats = NoStats
    /\ lengthStats' = expectedAvgVsLength(runs, metric)
    /\ byIdx' = byIndexLeftByRecommend(byIdx)
    /\ rec' = recommendLengths(byIdx', bestVsL, lengthStats')
    /\ UNCHANGED <<sessions, metric, runs, bestVsL, stage>>
    /\ UNCHANGED besidesLength

NextLength == Render \/ SetMetric \/ RecommendWithStats

SpecLength == InitLength /\ [][NextLength]_vars

----------------------------------------------------------------------------
(* Properties of the curves and of the recommendation                      *)

\* The maximum observed session length of the scenario.
MaxSessionLength ==
    IF runs = <<>> THEN 0
    ELSE CHOOSE n \in { Len(runs[k]) : k \in DOMAIN runs } :
             \A k \in DOMAIN runs : Len(runs[k]) <= n

RecFields == { rec.warmupRuns, rec.optimalAvgRuns, rec.optimalConsistentRuns,
               rec.optimalHighscoreRuns }

\* C6: for a non-empty session set, with or without per-length statistics,
\* the four recommended run counts lie in 1..maxSessionLength.
RecommendationBounds ==
    (stage = "rendered" /\ runs # <<>>) =>
        \A f \in RecFields : f \in 1..MaxSessionLength

\* A recommendation over several sessions, the longest of three runs or more,
\* whose fields are not all the same and one of which is the maximum length.
RecommendationBoundsWitness ==
    /\ stage = "rendered"
    /\ Len(runs) >= 2
    /\ MaxSessionLength >= 3
    /\ Cardinality(RecFields) >= 2
    /\ MaxSessionLength \in RecFields

\* The curves are zero everywhere.
AllZeroCurves ==
    /\ \A j \in DOMAIN byIdx.mean : byIdx.mean[j] = QZero
    /\ \A j \in DOMAIN byIdx.std : byIdx.std[j] = QZero
    /\ \A L \in DOMAIN bestVsL : bestVsL[L] = QZero

\* C7: on degenerate inputs (no sessions, hence empty arrays, or curves that
\* are zero everywhere) every recommended run count is 1.
DegenerateDefaults ==
    (stage = "rendered" /\ (runs = <<>> \/ AllZeroCurves)) =>
        RecFields = { 1 }

\* C8: the best-of-length curve is non-decreasing in L.
BestOfLengthMonotone ==
    stage = "rendered" =>
        \A L \in 2..Len(bestVsL) : QLe(bestVsL[L - 1], bestVsL[L])

\* A curve over sessions of different lengths, the shorter one exhausted
\* before the longest ends and its first run its best, that rises on the way.
BestOfLengthMonotoneWitness ==
    /\ stage = "rendered"
    /\ Len(bestVsL) >= 3
    /\ \E k \in DOMAIN runs :
          /\ Len(runs[k]) < MaxSessionLength
          /\ \A i \in DOMAIN runs[k] :
                QLe(metricOf(runs[k][i], metric), metricOf(runs[k][1], metric))
          /\ QLt(QZero, metricOf(runs[k][1], metric))
    /\ \E L \in 2..Len(bestVsL) : QLt(bestVsL[L - 1], bestVsL[L])

\* The runs are those of the example: scores [10,20,15] and [5,25], oldest
\* first, curve taken on the score.
BestOfLengthExampleRendered ==
    /\ stage = "rendered"
    /\ metric = "score"
    /\ Len(runs) = 2
    /\ [ i \in DOMAIN runs[1] |-> runs[1][i].Score ] = <<10, 20, 15>>
    /\ [ i \in DOMAIN runs[2] |-> runs[2][i].Score ] = <<5, 25>>

\* C9 as stated: the example's curve is [7.5, 22.5, 20].
BestOfLengthExampleAsStated ==
    BestOfLengthExampleRendered => bestVsL = <<Q(15, 2), Q(45, 2), QInt(20)>>

\* C9 (amended): the example's curve is [7.5, 22.5, 22.5]: at L = 3 the
\* exhausted second session still contributes its best, 25.
BestOfLengthExampleCurve ==
    BestOfLengthExampleRendered => bestVsL = <<Q(15, 2), Q(45, 2), Q(45, 2)>>

BestOfLengthExampleWitness ==
    /\ BestOfLengthExampleRendered
    /\ sessions = BestOfLengthExample
    /\ sessions[1].items[1].Score = 15

\* C10: mean and std have the same length, the maximum session length, and
\* both are empty when there is no session (no records: no sessions, no runs).
ExpectationCurveShape ==
    stage = "rendered" =>
        /\ Len(byIdx.mean) = Len(byIdx.std)
        /\ Len(byIdx.mean) = MaxSessionLength
        /\ (sessions = <<>> => runs = <<>>)
        /\ (runs = <<>> => (byIdx.mean = <<>> /\ byIdx.std = <<>>))

\* Curves over sessions of different lengths, the longest not the last one,
\* and empty curves for no session: here, the former.
ExpectationCurveShapeWitness ==
    /\ stage = "rendered"
    /\ Len(runs) >= 2
    /\ Len(runs[1]) > Len(runs[Len(runs)])
    /\ Len(byIdx.mean) = Len(runs[1])
    /\ \E j \in DOMAIN byIdx.std : byIdx.std[j] # QZero

----------------------------------------------------------------------------
(* Timestamp resolution: inputs, steps and properties                      *)

HOUR == 3600000

\* Every combination of what the three fields can hold, the instants of the
\* sources all different.
StampRecords ==
    { [Scenario |-> "X", fnScenario |-> "X", fileTs |-> f, dateYmd |-> d,
       startTime |-> c, dateParsed |-> g, Score |-> 10] :
        f \in { NO_MATCH, 0, 5 * HOUR },
        d \in { NO_MATCH, 24 * HOUR },
        c \in { NO_MATCH, 0, 2 * HOUR },
        g \in { NaN, 24 * HOUR, 27 * HOUR } }

InitStamp ==
    /\ record \in StampRecords
    /\ ts = NO_MATCH
    /\ resolved = FALSE
    /\ resolvedAt = 0
    /\ NoHistoryState
    /\ NoLengthState
    /\ NoPredictState
    /\ NoNumericState
    /\ NoAIState

\* parseRecordTimestamp(record)
Resolve ==
    /\ ~resolved
    /\ ts' = parseRecordTimestamp(record, now)
    /\ resolved' = TRUE
    /\ resolvedAt' = now
    /\ UNCHANGED record
    /\ UNCHANGED besidesStamp

NextStamp == Resolve \/ Tick

SpecStamp == InitStamp /\ [][NextStamp]_vars

\* C17: the timestamp is the fileName stamp whenever fileName holds one; else,
\* when Date Played holds a year-month-day, that date at the time of day of
\* Challenge Start (midnight without one); else Date.parse of Date Played
\* when it succeeds; else the current time.  A later source never overrides
\* an earlier one that resolved.
StampFallbackChain ==
    resolved =>
        /\ (record.fileTs # NO_MATCH => ts = record.fileTs)
        /\ (record.fileTs = NO_MATCH /\ record.dateYmd # NO_MATCH =>
               ts = record.dateYmd
                      + (IF record.startTime # NO_MATCH THEN record.startTime ELSE 0))
        /\ (record.fileTs = NO_MATCH /\ record.dateYmd = NO_MATCH
               /\ isFinite(record.dateParsed) => ts = record.dateParsed)
        /\ (record.fileTs = NO_MATCH /\ record.dateYmd = NO_MATCH
               /\ ~isFinite(record.dateParsed) => ts = resolvedAt)

\* A record every source of which resolves, each to another instant: the
\* fileName stamp is the one returned.
StampFallbackChainWitness ==
    /\ resolved
    /\ record.fileTs # NO_MATCH
    /\ record.dateYmd # NO_MATCH
    /\ record.startTime # NO_MATCH
    /\ isFinite(record.dateParsed)
    /\ ts = record.fileTs
    /\ ts # record.dateYmd + record.startTime
    /\ ts # record.dateParsed

----------------------------------------------------------------------------
(* Highscore forecast: inputs, steps and properties                        *)

MaxRuns == 5

\* What a player adds to the history: a run some minutes after the previous
\* one, with its score.
RunSteps ==
    { [gap |-> 5, score |-> 10], [gap |-> 5, score |-> 12], [gap |-> 40, score |-> 10] }

\* The instant of the i-th run, the first run at instant 0.
RECURSIVE startOf(_, _)
startOf(steps, i) == IF i <= 1 THEN 0 ELSE startOf(steps, i - 1) + steps[i].gap * MINUTE

\* The records of the runs, oldest first, each stamped by its file name.
Played(steps) ==
    [ i \in DOMAIN steps |-> Rec("X", "X", startOf(steps, i), NaN, steps[i].score) ]

\* A best of 600 in an earlier session, then a session that climbs by 2 a run.
ClimbingExample ==
    Played(<< [gap |-> 0, score |-> 600], [gap |-> 40, score |-> 10],
              [gap |-> 5, score |-> 12], [gap |-> 5, score |-> 14] >>)

\* The same, the last run bringing nothing.
StallingExample ==
    Played(<< [gap |-> 0, score |-> 600], [gap |-> 40, score |-> 10],
              [gap |-> 5, score |-> 12], [gap |-> 5, score |-> 12] >>)

\* Four runs of the scenario, one of them with no timestamp to resolve, among
\* a run of another scenario and one whose Score is not a number.
MixedExample ==
    << Rec("X", "X", 10 * MINUTE, NaN, 12), Rec("Y", "Y", 5 * MINUTE, NaN, 30),
       Rec("X", "X", NO_MATCH, NaN, 10), Rec("X", "X", 0, NaN, 10),
       Rec("X", "X", 5 * MINUTE, NaN, NaN), Rec("X", "X", 5 * MINUTE, NaN, 14) >>

\* Two sessions, the runs of the second within the same minute or two.
BurstExample ==
    Played(<< [gap |-> 0, score |-> 20], [gap |-> 1, score |-> 22],
              [gap |-> 40, score |-> 10], [gap |-> 0, score |-> 12],
              [gap |-> 0, score |-> 11], [gap |-> 2, score |-> 15] >>)

PredictInputs ==
    { Played(st) : st \in SeqsUpTo(RunSteps, MaxRuns) }
    \cup { ClimbingExample, Reverse(ClimbingExample), StallingExample, MixedExample,
           BurstExample }

SearchOutcomes ==
    { [x |-> Q(1, 8), last |-> FALSE], [x |-> Q(1, 4), last |-> TRUE],
      [x |-> QInt(1), last |-> FALSE] }

\* The clock starts after every recorded instant.
PredictNow0 == 6 * HOUR

InitPredict ==
    /\ items \in PredictInputs
    /\ now = PredictNow0
    /\ ticks = 0
    /\ hist = <<>>
    /\ called = FALSE
    /\ calledAt = 0
    /\ shuffled = <<>>
    /\ hist2 = <<>>
    /\ called2 = FALSE
    /\ calledAt2 = 0
    /\ fitOut \in FitOutcomes
    /\ searchOut \in SearchOutcomes
    /\ locals = [n |-> 0]
    /\ pred = NULL
    /\ predicted = FALSE
    /\ predAt = 0
    /\ pred2 = NULL
    /\ predicted2 = FALSE
    /\ predAt2 = 0
    /\ NoLengthState
    /\ NoStampState
    /\ NoNumericState
    /\ NoAIState

besidesPredict == <<hist, called, calledAt, shuffled, hist2, called2, calledAt2,
                    lenVars, stampVars, numVars, aiVars>>

\* predictNextHighscore(items, name)
Predict ==
    /\ ~predicted
    /\ locals' = predictLocals(collectScenarioHistory(items, Name, now), now,
                               fitOut, searchOut)
    /\ pred' = predictNextHighscore(items, Name, now, fitOut, searchOut)
    /\ predicted' = TRUE
    /\ predAt' = now
    /\ items' = itemsLeftByCollectHistory(items, now)
    /\ UNCHANGED <<now, ticks, fitOut, searchOut, pred2, predicted2, predAt2>>
    /\ UNCHANGED besidesPredict

\* A second call with the same record set.
PredictAgain ==
    /\ predicted
    /\ ~predicted2
    /\ pred2' = predictNextHighscore(items, Name, now, fitOut, searchOut)
    /\ predicted2' = TRUE
    /\ predAt2' = now
    /\ items' = itemsLeftByCollectHistory(items, now)
    /\ UNCHANGED <<now, ticks, fitOut, searchOut, locals, pred, predicted, predAt>>
    /\ UNCHANGED besidesPredict

\* A minute passes.
Pause ==
    /\ ticks < MaxTicks
    /\ now' = now + MINUTE
    /\ ticks' = ticks + 1
    /\ UNCHANGED <<items, fitOut, searchOut, locals, pred, predicted, predAt,
                   pred2, predicted2, predAt2>>
    /\ UNCHANGED besidesPredict

NextPredict == Predict \/ PredictAgain \/ Pause

SpecPredict == InitPredict /\ [][NextPredict]_vars

\* The history the first call worked on.
PredictedHistory == collectScenarioHistory(items, Name, predAt)

\* The result is the one of insufficient data or of no trend: no forecast.
NoForecast(r) ==
    /\ r.etaTs = NULL
    /\ r.runsExpected = NULL
    /\ r.confidence = "low"
    /\ r.reason # ""

\* C12: with fewer than 4 historical runs of the scenario (3 in particular)
\* predictNextHighscore returns etaTs = null, runsExpected = null, confidence
\* 'low' and a non-empty reason.
InsufficientDataSentinel ==
    (predicted /\ Len(PredictedHistory) < 4) => NoForecast(pred)

\* A call on exactly 3 runs of the scenario.
InsufficientDataSentinelWitness ==
    /\ predicted
    /\ Len(PredictedHistory) = 3
    /\ NoForecast(pred)
    /\ pred.sample = 3

\* The chronologically last run of the history holds its best score.
LastIsBest(h) ==
    /\ h # <<>>
    /\ \A i \in DOMAIN h : h[i].score <= h[Len(h)].score

\* runsExpected in {1, 2} and a non-null etaTs.
SoonForecast(r) ==
    /\ r.runsExpected \in { QInt(1), QInt(2) }
    /\ r.etaTs # NULL

\* C13 as stated: whenever the last run's score equals the best score,
\* runsExpected is in {1, 2} and etaTs is not null.
NearBestShortcutAsStated ==
    (predicted /\ LastIsBest(PredictedHistory)) => SoonForecast(pred)

\* C13 (amended): whenever the history holds at least 4 runs and the last
\* run's score equals the best score, runsExpected is in {1, 2} and etaTs is
\* not null.
NearBestShortcut ==
    (predicted /\ Len(PredictedHistory) >= 4 /\ LastIsBest(PredictedHistory))
        => SoonForecast(pred)

\* A shortcut taken on a history whose last run ties an earlier best.
NearBestShortcutWitness ==
    /\ predicted
    /\ Len(PredictedHistory) >= 4
    /\ LastIsBest(PredictedHistory)
    /\ PredictedHistory[1].score = PredictedHistory[Len(PredictedHistory)].score
    /\ \E i \in DOMAIN PredictedHistory : PredictedHistory[i].score < PredictedHistory[1].score
    /\ pred.runsExpected = QInt(1)
    /\ QLess(QInt(predAt), pred.etaTs)

\* The call went past the near-best shortcut.
PastShortcut == locals.n >= 4 /\ locals.best - locals.last.score > locals.epsImprovement

\* The primary model's solution was rejected or missing: the fallback ran.
FallbackRan == pred.reason \in { "Using robust recent trend", "No upward trend detected yet" }

\* C14: a non-null runsExpected is an integer in 1..500; a primary-model
\* solution of more than 500 runs hands over to the fallback estimator; and a
\* fallback estimate above 500 runs gives the unknown result.
RunawayNeverSurfaced ==
    predicted =>
        /\ (pred.runsExpected # NULL =>
               /\ pred.runsExpected[2] = 1
               /\ pred.runsExpected[1] \in 1..500)
        /\ ((PastShortcut /\ locals.opt # NULL /\ QLess(QInt(500), locals.opt.runs))
               => FallbackRan)
        /\ ((PastShortcut /\ FallbackRan /\ QLess(QInt(500), locals.runsRaw))
               => NoForecast(pred))

\* A primary solution of more than 500 runs, with an expected delta not below
\* the margin, replaced by a fallback estimate of at most 500 runs.
RunawayNeverSurfacedWitness ==
    /\ predicted
    /\ PastShortcut
    /\ locals.opt # NULL
    /\ QLess(QInt(500), locals.opt.runs)
    /\ QLeq(QInt(locals.epsImprovement), locals.opt.delta)
    /\ pred.reason = "Using robust recent trend"
    /\ pred.runsExpected # NULL
    /\ pred.runsExpected[1] > 100

\* C15: two calls of predictNextHighscore with the same record set, made at
\* any two moments, return the same HighscorePrediction.
SameRecordsSamePrediction ==
    (predicted /\ predicted2) => pred = pred2

\* The runs are those of the two-session example: scores [100,110,105] and
\* [90,120,130], oldest first, curves taken on the score.
EndToEndExampleRendered ==
    /\ stage = "rendered"
    /\ metric = "score"
    /\ Len(runs) = 2
    /\ [ i \in DOMAIN runs[1] |-> runs[1][i].Score ] = <<100, 110, 105>>
    /\ [ i \in DOMAIN runs[2] |-> runs[2][i].Score ] = <<90, 120, 130>>

\* C11: for the sessions [100,110,105] and [90,120,130] the by-index mean is
\* [95, 115, 117.5] and the recommended highscore length is 3, with or without
\* per-length statistics.
EndToEndExampleValues ==
    EndToEndExampleRendered =>
        /\ byIdx.mean = <<QInt(95), QInt(115), Q(235, 2)>>
        /\ rec.optimalHighscoreRuns = 3

\* The example rendered from sessions given newest first, its best-of-length
\* curve peaking at the full length.
EndToEndExampleWitness ==
    /\ EndToEndExampleRendered
    /\ sessions = EndToEndExample
    /\ sessions[2].items[1].Score = 130
    /\ bestVsL = <<QInt(95), QInt(115), QInt(120)>>

\* The 0-based loop indices i >= 1 of the warm-up walk at which the slope into
\* i is at most the median absolute slope and the spread at i at most the
\* median spread.
WarmupCandidates ==
    LET mean0(k) == byIdx.mean[k + 1]
        std0(k) == byIdx.std[k + 1]
        n == Len(byIdx.mean)
        absSlope(k) == QAbs(QSub(mean0(k + 1), mean0(k)))
        medianSlope == median([ k \in 1..(n - 1) |-> absSlope(k - 1) ])
        medianStd == median(byIdx.std)
    IN  { i \in 1..(n - 1) : QLe(absSlope(i - 1), medianSlope) /\ QLe(std0(i), medianStd) }

\* C20: warmupRuns is i + 1 for the smallest 0-based index i >= 1 whose slope
\* |mean[i] - mean[i-1]| is at most the median absolute slope and whose std[i]
\* is at most the median std, and 1 when there is no such index.
WarmupRule ==
    stage = "rendered" =>
        /\ (WarmupCandidates = {} => rec.warmupRuns = 1)
        /\ (WarmupCandidates # {} =>
               /\ rec.warmupRuns - 1 \in WarmupCandidates
               /\ \A i \in WarmupCandidates : rec.warmupRuns - 1 <= i)

\* A warm-up boundary found past an index the walk rejects, the rejected index
\* having a small enough slope but too large a spread.
WarmupRuleWitness ==
    /\ stage = "rendered"
    /\ rec.warmupRuns >= 3
    /\ QLe(QAbs(QSub(byIdx.mean[2], byIdx.mean[1])),
           median([ k \in 1..(Len(byIdx.mean) - 1) |->
                      QAbs(QSub(byIdx.mean[k + 1], byIdx.mean[k])) ]))


----------------------------------------------------------------------------
(* A caller holding records and sessions, calling the analysis functions   *)
(* in any order                                                            *)

\* Record sets out of order, with records of other scenarios and non-numeric
\* scores among them.
FrameItems == { ClimbingExample, Reverse(ClimbingExample), StallingExample, MixedExample }

\* Sessions holding their items newest first or oldest first.
FrameSessions ==
    { BestOfLengthExample, EndToEndExample,
      BuildSessions(<< SessRec("X", 10, 50), SessRec("Y", 20, 50), SessRec("X", NaN, 75),
                       SessRec("X", 10, 50), SessRec("X", 10, 50) >>, {4}, "newestFirst"),
      BuildSessions(<< SessRec("X", 10, 50), SessRec("X", NaN, 75), SessRec("Y", 20, 50),
                       SessRec("X", 10, 50) >>, {3}, "oldestFirst") }

InitFrame ==
    /\ items \in FrameItems
    /\ sessions \in FrameSessions
    /\ now = PredictNow0
    /\ ticks = 0
    /\ hist = <<>>
    /\ called = FALSE
    /\ calledAt = 0
    /\ shuffled = <<>>
    /\ hist2 = <<>>
    /\ called2 = FALSE
    /\ calledAt2 = 0
    /\ metric = "score"
    /\ runs = <<>>
    /\ byIdx = [mean |-> <<>>, std |-> <<>>]
    /\ bestVsL = <<>>
    /\ lengthStats = NoStats
    /\ rec = <<>>
    /\ stage = "input"
    /\ fitOut \in FitOutcomes
    /\ searchOut = [x |-> QInt(1), last |-> FALSE]
    /\ locals = [n |-> 0]
    /\ pred = NULL
    /\ predicted = FALSE
    /\ predAt = 0
    /\ pred2 = NULL
    /\ predicted2 = FALSE
    /\ predAt2 = 0
    /\ NoStampState
    /\ NoNumericState
    /\ NoAIState

NextFrame ==
    \/ Collect
    \/ Predict
    \/ PredictAgain
    \/ Pause
    \/ Render
    \/ SetMetric
    \/ RecommendWithStats

SpecFrame == InitFrame /\ [][NextFrame]_vars

\* The arrays handed on inside one render still hold what was returned.
ReturnedArraysKept ==
    stage = "rendered" =>
        /\ runs = collectRunsBySession(sessions, Name)
        /\ byIdx = expectedByIndex(runs, metric)
        /\ bestVsL = expectedBestVsLength(runs, metric)

\* No step changes an array it was handed.
ArgumentsKept ==
    /\ items' = items
    /\ sessions' = sessions
    /\ stage = "rendered" => runs' = runs
    /\ (stage = "rendered" /\ metric' = metric) => (byIdx' = byIdx /\ bestVsL' = bestVsL)

----------------------------------------------------------------------------
(* The numeric helpers on degenerate inputs: no points, equal abscissae,   *)
(* equal ordinates, zero weights, empty arrays, no sessions, no records    *)

MaxPoints == 3

XValues == { QZero, QInt(1) }
YValues == { QInt(1), QInt(3) }

\* Weights of n points: all 1, halving towards the past as the recency
\* weights do, or all 0.
Weightings(n) ==
    { [ i \in 1..n |-> QInt(1) ],
      [ i \in 1..n |-> Q(1, 2 ^ (n - i)) ],
      [ i \in 1..n |-> QZero ] }

ArrValues == { QInt(1), QInt(2), Q(7, 2) }

\* Either points for the regression, or an array for the averages and order
\* statistics, or sessions and records for the curves and the forecast; what
\* is not drawn is empty.
InitNumeric ==
    /\ \/ /\ pointsX \in SeqsUpTo(XValues, MaxPoints)
          /\ pointsY \in [1..MaxPoints -> YValues]
          /\ pointsW \in Weightings(MaxPoints)
          /\ values = <<>>
          /\ sessions = <<>>
          /\ items = <<>>
          /\ fitOut = NoFit
       \/ /\ pointsX = <<>>
          /\ pointsY = <<>>
          /\ pointsW = <<>>
          /\ values \in SeqsUpTo(ArrValues, MaxPoints)
          /\ sessions = <<>>
          /\ items = <<>>
          /\ fitOut = NoFit
       \/ /\ pointsX = <<>>
          /\ pointsY = <<>>
          /\ pointsW = <<>>
          /\ values = <<>>
          /\ sessions \in FrameSessions
          /\ items \in FrameItems
          /\ fitOut \in FitOutcomes
    /\ reg = NULL
    /\ summary = NULL
    /\ now = PredictNow0
    /\ ticks = 0
    /\ hist = <<>>
    /\ called = FALSE
    /\ calledAt = 0
    /\ shuffled = <<>>
    /\ hist2 = <<>>
    /\ called2 = FALSE
    /\ calledAt2 = 0
    /\ metric = "score"
    /\ runs = <<>>
    /\ byIdx = [mean |-> <<>>, std |-> <<>>]
    /\ bestVsL = <<>>
    /\ lengthStats = NoStats
    /\ rec = <<>>
    /\ stage = "input"
    /\ searchOut = [x |-> QInt(1), last |-> FALSE]
    /\ locals = [n |-> 0]
    /\ pred = NULL
    /\ predicted = FALSE
    /\ predAt = 0
    /\ pred2 = NULL
    /\ predicted2 = FALSE
    /\ predAt2 = 0
    /\ NoStampState
    /\ NoAIState

\* weightedLinReg(xs, ys, ws)
Regress ==
    /\ reg = NULL
    /\ reg' = weightedLinReg(pointsX, pointsY, pointsW)
    /\ UNCHANGED <<pointsX, pointsY, pointsW, values, summary>>
    /\ UNCHANGED besidesNumeric

\* The average and variance as expectedByIndex takes them, median,
\* percentile and quantile, all of the same array.
Summarise ==
    /\ summary = NULL
    /\ summary' = [mean |-> meanOf(values),
                   variance |-> varianceOf(values, meanOf(values)),
                   median |-> median(values),
                   p10 |-> percentile(values, 10),
                   p90 |-> percentile(values, 90),
                   q25 |-> quantile(values, Q(25, 100)),
                   q90 |-> quantile(values, Q(9, 10))]
    /\ UNCHANGED <<pointsX, pointsY, pointsW, values, reg>>
    /\ UNCHANGED besidesNumeric

NextNumeric ==
    \/ Regress
    \/ Summarise
    \/ Render
    \/ RecommendWithStats
    \/ Predict

SpecNumeric == InitNumeric /\ [][NextNumeric]_vars

AllFinite(sq) == \A i \in DOMAIN sq : QFinite(sq[i])
FiniteOrNull(v) == v = NULL \/ QFinite(v)

\* The points weightedLinReg works on.
RegressionPoints == IMin(Len(pointsX), IMin(Len(pointsY), Len(pointsW)))

\* Fewer than 2 points: a = b = r2 = 0; a zero denominator: b = 0; a zero
\* total sum of squares: r2 = 0.
RegressionGuarded ==
    reg # NULL =>
        LET n == RegressionPoints
            S == regressionSums(pointsX, pointsY, pointsW, n)
        IN  /\ n < 2 => reg = [a |-> QZero, b |-> QZero, r2 |-> QZero]
            /\ (n >= 2 /\ regressionDenom(S) = QZero) => reg.b = QZero
            /\ (n >= 2 /\ regressionSsTot(pointsY, pointsW, n, S) = QZero) => reg.r2 = QZero
            /\ QFinite(reg.a) /\ QFinite(reg.b) /\ QFinite(reg.r2)

\* The averages and the order statistics of an empty array are 0.
EmptyGuarded ==
    summary # NULL =>
        /\ values = <<>> => \A f \in DOMAIN summary : summary[f] = QZero
        /\ \A f \in DOMAIN summary : QFinite(summary[f])

\* The curves, the per-length statistics and the recommendation.
CurvesFinite ==
    stage = "rendered" =>
        /\ AllFinite(byIdx.mean) /\ AllFinite(byIdx.std) /\ AllFinite(bestVsL)
        /\ \A f \in {"mean", "min", "max", "std", "p10", "p90"} : AllFinite(lengthStats[f])
        /\ \A i \in DOMAIN lengthStats.count : lengthStats.count[i] \in Nat
        /\ \A f \in DOMAIN rec : rec[f] \in Nat

\* The forecast: every number of it, where not null.
ForecastFinite ==
    predicted =>
        /\ \A f \in {"etaTs", "runsExpected", "runsLo", "runsHi", "optPauseHours"} :
              FiniteOrNull(pred[f])
        /\ isFinite(pred.best) /\ isFinite(pred.lastScore) /\ QFinite(pred.lastPlayedDays)
        /\ pred.sample \in Nat

----------------------------------------------------------------------------
(* AIService: GenerateSessionInsights and Cancel (src/unnamed/part_017)    *)
(*                                                                         *)
(* A request is at "idle" before its call, "ready" with a key and a client *)
(* (line 49), "started" once Start is emitted (50), "streaming" once its   *)
(* cancel function is registered and its goroutine runs (51-55),           *)
(* "returned" when StreamSessionInsights has returned (63-68), "released"  *)
(* after the deferred Close and delete (57-60), "done" after Done (61),    *)
(* and "failed" if the call returned before Start (39-42, 46-49).  The     *)
(* sections under s.mu are one step each.  The stream client is not part   *)
(* of the sources: it may call back any number of times (MaxDeltas here)   *)
(* and return nil, an error, or context.Canceled once its context is       *)
(* cancelled.                                                              *)

MaxDeltas == 1

Event(type, r) == [type |-> type, requestId |-> r]

Emitted(type, r) == \E i \in DOMAIN events : events[i] = Event(type, r)

CountOf(type, r) == Cardinality({ i \in DOMAIN events : events[i] = Event(type, r) })

InitAI ==
    /\ NoAIState
    /\ NoHistoryState
    /\ NoLengthState
    /\ NoStampState
    /\ NoPredictState
    /\ NoNumericState

\* Lines 35-49: the key and the client; an Error event and a return without
\* either.
ResolveKeyAndClient ==
    \E r \in ReqIDs, outcome \in { "missingKey", "clientError", "ok" } :
        /\ pc[r] = "idle"
        /\ IF outcome = "ok"
           THEN /\ pc' = [pc EXCEPT ![r] = "ready"]
                /\ UNCHANGED events
           ELSE /\ pc' = [pc EXCEPT ![r] = "failed"]
                /\ events' = Append(events, Event("AI:Session:Error", r))
        /\ UNCHANGED <<cancels, ctxDone, cancelAsked>>
        /\ UNCHANGED besidesAI

\* Line 50
EmitStart ==
    \E r \in ReqIDs :
        /\ pc[r] = "ready"
        /\ events' = Append(events, Event("AI:Session:Start", r))
        /\ pc' = [pc EXCEPT ![r] = "started"]
        /\ UNCHANGED <<cancels, ctxDone, cancelAsked>>
        /\ UNCHANGED besidesAI

\* Lines 51-55: context.WithCancel, s.cancels[reqID] = cancel under s.mu, go
RegisterCancel ==
    \E r \in ReqIDs :
        /\ pc[r] = "started"
        /\ cancels' = cancels \cup {r}
        /\ pc' = [pc EXCEPT ![r] = "streaming"]
        /\ UNCHANGED <<ctxDone, events, cancelAsked>>
        /\ UNCHANGED besidesAI

\* Lines 63-65: the callback of StreamSessionInsights
StreamDelta ==
    \E r \in ReqIDs :
        /\ pc[r] = "streaming"
        /\ CountOf("AI:Session:Delta", r) < MaxDeltas
        /\ events' = Append(events, Event("AI:Session:Delta", r))
        /\ UNCHANGED <<pc, cancels, ctxDone, cancelAsked>>
        /\ UNCHANGED besidesAI

\* Lines 63-68: StreamSessionInsights returns; an Error event unless err is
\* nil or context.Canceled.
StreamReturn ==
    \E r \in ReqIDs :
        \E err \in { "nil", "failure" } \cup (IF ctxDone[r] THEN { "context.Canceled" } ELSE {}) :
            /\ pc[r] = "streaming"
            /\ events' = IF err = "failure"
                         THEN Append(events, Event("AI:Session:Error", r))
                         ELSE events
            /\ pc' = [pc EXCEPT ![r] = "returned"]
            /\ UNCHANGED <<cancels, ctxDone, cancelAsked>>
            /\ UNCHANGED besidesAI

\* The deferred function without its delete(s.cancels, reqID).
DeferredReleaseKeepingEntry ==
    \E r \in ReqIDs :
        /\ pc[r] = "returned"
        /\ pc' = [pc EXCEPT ![r] = "released"]
        /\ UNCHANGED <<cancels, ctxDone, events, cancelAsked>>
        /\ UNCHANGED besidesAI

\* Lines 57-60: the deferred client.Close() and delete(s.cancels, reqID)
DeferredRelease ==
    \E r \in ReqIDs :
        /\ pc[r] = "returned"
        /\ cancels' = cancels \ {r}
        /\ pc' = [pc EXCEPT ![r] = "released"]
        /\ UNCHANGED <<ctxDone, events, cancelAsked>>
        /\ UNCHANGED besidesAI

\* Line 61
EmitDone ==
    \E r \in ReqIDs :
        /\ pc[r] = "released"
        /\ events' = Append(events, Event("AI:Session:Done", r))
        /\ pc' = [pc EXCEPT ![r] = "done"]
        /\ UNCHANGED <<cancels, ctxDone, cancelAsked>>
        /\ UNCHANGED besidesAI

\* Cancel(reqID), lines 73-80, at any moment.
Cancel ==
    \E r \in ReqIDs :
        /\ IF r \in cancels
           THEN /\ ctxDone' = [ctxDone EXCEPT ![r] = TRUE]
                /\ cancels' = cancels \ {r}
           ELSE UNCHANGED <<ctxDone, cancels>>
        /\ cancelAsked' = [cancelAsked EXCEPT ![r] =
                              @ \/ (Emitted("AI:Session:Start", r) /\ ~Emitted("AI:Session:Done", r))]
        /\ UNCHANGED <<pc, events>>
        /\ UNCHANGED besidesAI

NextAI ==
    \/ ResolveKeyAndClient
    \/ EmitStart
    \/ RegisterCancel
    \/ StreamDelta
    \/ StreamReturn
    \/ DeferredRelease
    \/ EmitDone
    \/ Cancel

SpecAI == InitAI /\ [][NextAI]_vars

\* C19: a Cancel(reqID) invoked after the AI:Session:Start event of reqID and
\* before its AI:Session:Done event cancels the streaming context of the
\* request: no stream runs after it with its context not cancelled.
CancelReachesInFlight ==
    \A r \in ReqIDs : (cancelAsked[r] /\ pc[r] = "streaming") => ctxDone[r]


----------------------------------------------------------------------------
(* recommendLengths on curves of its caller's choosing                     *)

MaxCurve == 4

\* Values of a curve: metric values are not negative; 98, 99 and 100 lie
\* within 1% and 2% of one another.
CurveValues == { QZero, QInt(50), QInt(98), QInt(99), QInt(100) }

\* Values of a spread.
SpreadValues == { QZero, QInt(1), QInt(2) }

ConstantCurve(k, v) == [ i \in 1..k |-> v ]

\* Per-length statistics of k lengths with the given deciles.
StatsOf(k, lo, hi) ==
    [mean |-> ConstantCurve(k, QInt(50)), min |-> ConstantCurve(k, QZero),
     max |-> ConstantCurve(k, QInt(100)), std |-> ConstantCurve(k, QZero),
     p10 |-> lo, p90 |-> hi, count |-> [ i \in 1..k |-> 1 ]]

\* One of: a mean curve, a std curve, a best-of-length curve, or per-length
\* statistics; mean and std have the same length, as expectedByIndex builds
\* them.
InitRecommend ==
    /\ \/ \E k \in 0..MaxCurve :
             /\ byIdx \in [mean : [1..k -> CurveValues], std : {ConstantCurve(k, QInt(1))}]
             /\ bestVsL = <<>>
             /\ lengthStats = NoStats
       \/ \E k \in 1..MaxCurve :
             /\ byIdx \in [mean : {ConstantCurve(k, QInt(50))}, std : [1..k -> SpreadValues]]
             /\ bestVsL = <<>>
             /\ lengthStats = NoStats
       \/ /\ byIdx = [mean |-> <<>>, std |-> <<>>]
          /\ bestVsL \in SeqsUpTo(CurveValues, MaxCurve)
          /\ lengthStats = NoStats
       \/ \E k \in 1..MaxCurve, j \in 1..MaxCurve :
             /\ byIdx = [mean |-> ConstantCurve(j, QInt(50)), std |-> ConstantCurve(j, QZero)]
             /\ bestVsL = <<>>
             /\ \E lo \in [1..k -> {QZero, QInt(1)}], hi \in [1..k -> SpreadValues] :
                   lengthStats = StatsOf(k, lo, hi)
    /\ sessions = <<>>
    /\ metric = "score"
    /\ runs = <<>>
    /\ rec = <<>>
    /\ stage = "curves"
    /\ NoHistoryState
    /\ NoStampState
    /\ NoPredictState
    /\ NoNumericState
    /\ NoAIState

\* recommendLengths(byIndex, bestVsL, lengthStats)
Recommend ==
    /\ stage = "curves"
    /\ byIdx' = byIndexLeftByRecommend(byIdx)
    /\ rec' = recommendLengths(byIdx', bestVsL, lengthStats)
    /\ stage' = "recommended"
    /\ UNCHANGED <<sessions, metric, runs, bestVsL, lengthStats>>
    /\ UNCHANGED besidesLength

NextRecommend == Recommend

SpecRecommend == InitRecommend /\ [][NextRecommend]_vars

\* cumMean[L] = average(mean[0..L-1])
CumMean(L) == QDivInt(QSum(SubSeq(byIdx.mean, 1, L)), L)

\* L*: the first L maximising cumMean.
PeakOfCumMean ==
    CHOOSE L \in DOMAIN byIdx.mean :
        /\ \A K \in DOMAIN byIdx.mean : QLe(CumMean(K), CumMean(L))
        /\ \A K \in 1..(L - 1) : QLt(CumMean(K), CumMean(L))

WithinOnePercentOfCumPeak(L) ==
    QLe(QSub(CumMean(PeakOfCumMean), CumMean(L)), QMul(Q(1, 100), CumMean(PeakOfCumMean)))

NoStatsSupplied == Len(lengthStats.mean) = 0

\* C21: without per-length statistics, optimalAvgRuns is the smallest L <= L*
\* with cumMean[L*] - cumMean[L] <= 1% of cumMean[L*], L* being the first L
\* that maximises cumMean; so optimalAvgRuns <= L*.
OptimalAverageLength ==
    (stage = "recommended" /\ NoStatsSupplied /\ Len(byIdx.mean) > 0) =>
        /\ rec.optimalAvgRuns \in 1..PeakOfCumMean
        /\ WithinOnePercentOfCumPeak(rec.optimalAvgRuns)
        /\ \A L \in 1..(rec.optimalAvgRuns - 1) : ~WithinOnePercentOfCumPeak(L)

\* A length shorter than the peak of the cumulative mean is recommended, and
\* not the first one.
OptimalAverageLengthWitness ==
    /\ stage = "recommended"
    /\ NoStatsSupplied
    /\ Len(byIdx.mean) > 0
    /\ 1 < rec.optimalAvgRuns
    /\ rec.optimalAvgRuns < PeakOfCumMean

\* L_best: the first L maximising the best-of-length curve.
PeakOfBest ==
    CHOOSE L \in DOMAIN bestVsL :
        /\ \A K \in DOMAIN bestVsL : QLe(bestVsL[K], bestVsL[L])
        /\ \A K \in 1..(L - 1) : QLt(bestVsL[K], bestVsL[L])

\* (a) within 1% of the peak and (b) a gain to L + 1 under 2% of the peak, the
\* gain at the last L being 0.
HighscoreCutoff(L) ==
    LET peak == bestVsL[PeakOfBest]
        gain == IF L < Len(bestVsL) THEN QSub(bestVsL[L + 1], bestVsL[L]) ELSE QZero
    IN  /\ QLe(QSub(peak, bestVsL[L]), QMul(Q(1, 100), peak))
        /\ QLt(gain, QMul(Q(2, 100), peak))

\* optimalHighscoreRuns is the smallest L in 1..L_best with (a) and (b).
SmallestAtCutoff ==
    /\ rec.optimalHighscoreRuns \in 1..PeakOfBest
    /\ HighscoreCutoff(rec.optimalHighscoreRuns)
    /\ \A L \in 1..(rec.optimalHighscoreRuns - 1) : ~HighscoreCutoff(L)

\* C22 as stated: optimalHighscoreRuns is the smallest L in 1..L_best with
\* (a) peak - curve[L] <= 1% of peak and (b) curve[L+1] - curve[L] < 2% of
\* peak, whatever the peak.
HighscoreLengthAsStated ==
    (stage = "recommended" /\ Len(bestVsL) > 0) => SmallestAtCutoff

\* C22: with a peak above 0, optimalHighscoreRuns is the smallest L in
\* 1..L_best with (a) peak - curve[L] <= 1% of peak and (b) curve[L+1] -
\* curve[L] < 2% of peak, L_best being the first L that maximises the
\* best-of-length curve; with a peak of 0 it is 1; so optimalHighscoreRuns <=
\* L_best.
HighscoreLength ==
    (stage = "recommended" /\ Len(bestVsL) > 0) =>
        /\ rec.optimalHighscoreRuns <= PeakOfBest
        /\ IF QLt(QZero, bestVsL[PeakOfBest]) THEN SmallestAtCutoff
           ELSE rec.optimalHighscoreRuns = 1

\* A length before the peak is recommended, and not the first one.
HighscoreLengthWitness ==
    /\ stage = "recommended"
    /\ Len(bestVsL) > 0
    /\ QLt(QZero, bestVsL[PeakOfBest])
    /\ 1 < rec.optimalHighscoreRuns
    /\ rec.optimalHighscoreRuns < PeakOfBest

\* variability: std[] by index, or max(0, p90 - p10) per length with statistics
Variability ==
    IF NoStatsSupplied THEN byIdx.std
    ELSE [ i \in DOMAIN lengthStats.mean |->
             IF QLe(lengthStats.p10[i], lengthStats.p90[i])
             THEN QSub(lengthStats.p90[i], lengthStats.p10[i]) ELSE QZero ]

\* The average variability over the last min(3, L) lengths ending at L is at
\* most the median variability.
SteadyAt(L) ==
    LET k == IF L < 3 THEN L ELSE 3
        window == { i \in DOMAIN Variability : L - k < i /\ i <= L }
        total == QSum([ j \in 1..k |-> Variability[L - k + j] ])
    IN  /\ Cardinality(window) = k
        /\ QLe(QDivInt(total, k), median(Variability))

\* C23: optimalConsistentRuns is the smallest L >= 2 whose average variability
\* over the trailing window of min(3, L) lengths ending at L is at most the
\* median variability (std[] by index, or max(0, p90 - p10) per length with
\* statistics); the number of indices n when no L qualifies.
ConsistencyLength ==
    stage = "recommended" =>
        LET steady == { L \in 2..Len(Variability) : SteadyAt(L) }
        IN  IF steady = {}
            THEN rec.optimalConsistentRuns = Len(byIdx.mean)
            ELSE /\ rec.optimalConsistentRuns \in steady
                 /\ \A L \in steady : rec.optimalConsistentRuns <= L

\* A length of 4 or more is recommended: its window leaves the first length
\* out.
ConsistencyLengthWitness ==
    /\ stage = "recommended"
    /\ rec.optimalConsistentRuns >= 4
    /\ SteadyAt(rec.optimalConsistentRuns)
    /\ \E L \in 2..3 : ~SteadyAt(L)


----------------------------------------------------------------------------
(* The forecast in detail                                                  *)

\* The sessions of the history.
SessionsOf(h) == { h[i].sessionId : i \in DOMAIN h }

\* The adjacent runs of one session: i stands for the pair (i - 1, i).
PairsOf(h) == { i \in 2..Len(h) : h[i].sessionId = h[i - 1].sessionId }

\* The i of the j-th pair in time order.
NthPair(h, j) ==
    CHOOSE i \in PairsOf(h) : Cardinality({ m \in PairsOf(h) : m <= i }) = j

\* The delta model of the first call exists: the call went past the guard on
\* the number of runs.
DeltaModelBuilt == predicted /\ Len(PredictedHistory) >= 4

\* C24: the delta model is built from the adjacent run pairs of one session:
\* n - k pairs for n runs in k sessions, none across two sessionIds, each with
\* a delta-t between 1 minute (the lower clamp) and the 30-minute session gap.
PairsWithinSessions ==
    DeltaModelBuilt =>
        LET h == PredictedHistory
            np == Len(h) - Cardinality(SessionsOf(h))
        IN  /\ Len(locals.dtDays) = np
            /\ Len(locals.rawDeltas) = np
            /\ Cardinality(PairsOf(h)) = np
            /\ \A j \in 1..np :
                  LET i == NthPair(h, j)
                      gapMin == Q(h[i].t - h[i - 1].t, MINUTE)
                  IN  /\ locals.rawDeltas[j] = QInt(h[i].score - h[i - 1].score)
                      /\ QTimes(locals.dtDays[j], QInt(24 * 60)) = QHi(QInt(1), gapMin)
                      /\ QLeq(QInt(1), QTimes(locals.dtDays[j], QInt(24 * 60)))
                      /\ QLeq(QTimes(locals.dtDays[j], QInt(24 * 60)), QInt(SESSION_GAP_MIN))

\* A history of two sessions or more, with a pair closer than a minute, that
\* the clamp lifts to 1 minute.
PairsWithinSessionsWitness ==
    /\ DeltaModelBuilt
    /\ Cardinality(SessionsOf(PredictedHistory)) >= 2
    /\ Len(locals.dtDays) >= 3
    /\ \E j \in DOMAIN locals.dtDays :
          /\ locals.dtDays[j] = MIN_DAY
          /\ PredictedHistory[NthPair(PredictedHistory, j)].t
                = PredictedHistory[NthPair(PredictedHistory, j) - 1].t


----------------------------------------------------------------------------
(* Outlier clipping: one session of many runs                              *)

\* if (deltas.length >= 6)
CLIP_FROM == 6

\* What a run adds to the score of the run before it.
ScoreSteps == { -40, 0, 40 }

RECURSIVE scoreAfter(_, _)
scoreAfter(steps, i) == IF i = 0 THEN 300 ELSE scoreAfter(steps, i - 1) + steps[i]

\* One session: a run every 5 minutes, the first of 300.
Session(steps) ==
    [ i \in 1..(Len(steps) + 1) |->
        Rec("X", "X", (i - 1) * 5 * MINUTE, NaN, scoreAfter(steps, i - 1)) ]

\* Sessions one pair short of the clipping and sessions with just enough pairs.
ClipInputs ==
    { Session(st) : st \in [1..(CLIP_FROM - 1) -> ScoreSteps] \cup [1..CLIP_FROM -> ScoreSteps] }

InitClip ==
    /\ items \in ClipInputs
    /\ now = PredictNow0
    /\ ticks = 0
    /\ hist = <<>>
    /\ called = FALSE
    /\ calledAt = 0
    /\ shuffled = <<>>
    /\ hist2 = <<>>
    /\ called2 = FALSE
    /\ calledAt2 = 0
    /\ fitOut \in FitOutcomes
    /\ searchOut = [x |-> Q(1, 4), last |-> TRUE]
    /\ locals = [n |-> 0]
    /\ pred = NULL
    /\ predicted = FALSE
    /\ predAt = 0
    /\ pred2 = NULL
    /\ predicted2 = FALSE
    /\ predAt2 = 0
    /\ NoLengthState
    /\ NoStampState
    /\ NoNumericState
    /\ NoAIState

NextClip == Predict \/ Pause

SpecClip == InitClip /\ [][NextClip]_vars

\* The quartiles of the unclipped deltas.
Q1 == quantile(locals.rawDeltas, Q(25, 100))
Q3 == quantile(locals.rawDeltas, Q(75, 100))

\* Every delta in use lies within [Q1 - 1.5 w, Q3 + 1.5 w].
DeltasWithin(w) ==
    \A i \in DOMAIN locals.deltas :
        /\ QLeq(QMinus(Q1, QTimes(Q(15, 10), w)), locals.deltas[i])
        /\ QLeq(locals.deltas[i], QPlus(Q3, QTimes(Q(15, 10), w)))

\* The fallback mean and the stability measure are those of the deltas in use.
StatsOfDeltasInUse ==
    /\ locals.meanPos = positiveDeltaStats(locals.deltas).meanPos
    /\ locals.stdPos = positiveDeltaStats(locals.deltas).stdPos

\* C25 as stated: from 6 pairs on the deltas in use lie within
\* [Q1 - 1.5 IQR, Q3 + 1.5 IQR] with IQR = Q3 - Q1; with fewer pairs they are
\* the unclipped deltas.
OutlierClippingAsStated ==
    DeltaModelBuilt =>
        /\ StatsOfDeltasInUse
        /\ IF Len(locals.rawDeltas) >= CLIP_FROM
           THEN DeltasWithin(QMinus(Q3, Q1))
           ELSE locals.deltas = locals.rawDeltas

\* C25: from 6 pairs on the deltas in use lie within [Q1 - 1.5 w, Q3 + 1.5 w]
\* with w the larger of 1 and Q3 - Q1; with fewer pairs they are the unclipped
\* deltas.
OutlierClipping ==
    DeltaModelBuilt =>
        /\ StatsOfDeltasInUse
        /\ IF Len(locals.rawDeltas) >= CLIP_FROM
           THEN DeltasWithin(QHi(QInt(1), QMinus(Q3, Q1)))
           ELSE locals.deltas = locals.rawDeltas

\* Six pairs, an outlier among them brought to the bound, with quartiles less
\* than 1 apart.
OutlierClippingWitness ==
    /\ DeltaModelBuilt
    /\ Len(locals.rawDeltas) >= CLIP_FROM
    /\ QLess(QMinus(Q3, Q1), QInt(1))
    /\ \E i \in DOMAIN locals.deltas :
          /\ locals.deltas[i] # locals.rawDeltas[i]
          /\ locals.deltas[i] = QPlus(Q3, Q(15, 10))


----------------------------------------------------------------------------
(* The fallback estimate                                                   *)

\* The first call took the fallback and the fallback gave an estimate.
FallbackEstimated == predicted /\ pred.reason = "Using robust recent trend"

\* The median of the gaps of the same-session pairs, in days.
MedianGapDays == quantile(locals.dtDays, Q(1, 2))

\* runsExpected = ceil(deficit / meanPositiveDelta), deficit = target - lastScore
FallbackRunsAsStated ==
    /\ locals.deficit = locals.best + deficitMarginOf(locals.best) - locals.last.score
    /\ pred.runsExpected = QInt(QCeil(QOver(QInt(locals.deficit), locals.meanPos)))

\* The pause reported, in hours, is the median gap.
FallbackPauseAsStated == pred.optPauseHours = QTimes(MedianGapDays, QInt(24))

\* etaTs = now + runsExpected x the median gap
FallbackEtaAsStated ==
    pred.etaTs = QPlus(QInt(predAt),
                       QTimes(QTimes(pred.runsExpected, MedianGapDays), QInt(DAY)))

\* C26: when the primary optimisation is rejected and the fallback does not
\* degenerate, runsExpected = ceil(deficit / meanPositiveDelta), optPauseHours
\* is the median same-session gap and etaTs = now + runsExpected x that gap.
FallbackEstimateValues ==
    (FallbackEstimated /\ Len(locals.dtDays) >= 1) =>
        FallbackRunsAsStated /\ FallbackPauseAsStated /\ FallbackEtaAsStated

\* The parts of C26 on the run count and, from two pairs on, on the eta.
FallbackRunsAndEta ==
    FallbackEstimated =>
        /\ FallbackRunsAsStated
        /\ (Len(locals.dtDays) >= 2 => FallbackEtaAsStated)


----------------------------------------------------------------------------
(* No upward trend                                                         *)

\* The primary optimisation is rejected: no solution, more than 500 runs, or
\* an expected delta below the margin.
PrimaryRejected ==
    \/ locals.opt = NULL
    \/ QLess(QInt(500), locals.opt.runs)
    \/ QLess(locals.opt.delta, QInt(locals.epsImprovement))

\* The fallback degenerates: deficit / meanPositiveDelta is not finite or is
\* above 500, or meanPositiveDelta is below a quarter of the margin.
FallbackDegenerates ==
    \/ locals.meanPos = QZero
    \/ QLess(QInt(500), QOver(QInt(locals.deficit), locals.meanPos))
    \/ QLess(locals.meanPos, Q(locals.epsImprovement, 4))

\* The unknown result of the fallback.
NoTrendResult ==
    /\ pred.etaTs = NULL
    /\ pred.runsExpected = NULL
    /\ pred.confidence = "low"
    /\ pred.reason = "No upward trend detected yet"

\* A forecast in numbers.
NumericForecast ==
    /\ pred.etaTs # NULL /\ QFinite(pred.etaTs)
    /\ pred.runsExpected # NULL /\ QFinite(pred.runsExpected)

\* C27: for 4 runs or more with the last score not within the near-best
\* margin, the result is the unknown one, with reason 'No upward trend detected
\* yet', when the primary optimisation is rejected and the fallback
\* degenerates, and a numeric forecast otherwise.
UnknownOnNoTrend ==
    (predicted /\ PastShortcut) =>
        IF PrimaryRejected /\ FallbackDegenerates THEN NoTrendResult ELSE NumericForecast

\* Rejected with not one positive same-session delta: the unknown result.
UnknownOnNoTrendWitness ==
    /\ predicted
    /\ PastShortcut
    /\ locals.opt # NULL
    /\ PrimaryRejected
    /\ locals.meanPos = QZero
    /\ NoTrendResult


----------------------------------------------------------------------------
(* The range of the run count                                              *)

\* A number that is an integer.
IsWhole(x) == x # NULL /\ QFinite(x) /\ x[2] = 1

\* C28: with a non-null runsExpected, runsLo and runsHi are non-null integers
\* with 1 <= runsLo <= runsExpected <= runsHi and runsLo < runsHi, whichever
\* path gave the result.
RunRangeWellFormed ==
    (predicted /\ pred.runsExpected # NULL) =>
        /\ IsWhole(pred.runsLo)
        /\ IsWhole(pred.runsHi)
        /\ QLeq(QInt(1), pred.runsLo)
        /\ QLeq(pred.runsLo, pred.runsExpected)
        /\ QLeq(pred.runsExpected, pred.runsHi)
        /\ QLess(pred.runsLo, pred.runsHi)

\* A forecast past the shortcut with a range that the floor shaped: one run
\* expected, of which the unfloored lower end would be 0.
RunRangeWellFormedWitness ==
    /\ predicted
    /\ PastShortcut
    /\ pred.runsExpected = QInt(1)
    /\ pred.runsLo = QInt(1)
    /\ pred.runsHi = QInt(2)


----------------------------------------------------------------------------
(* The nullable fields of a HighscorePrediction                            *)

\* The result r of a call at the instant at: its nullable fields are null
\* together, and exactly when etaHuman is 'unknown'; then confidence is 'low'
\* and there is a reason; an etaTs that is not null is later than the call.
NullTogether(r, at) ==
    LET unknown == r.etaHuman = <<"unknown">> IN
    /\ (r.etaTs = NULL) <=> unknown
    /\ (r.runsExpected = NULL) <=> unknown
    /\ (r.runsLo = NULL) <=> unknown
    /\ (r.runsHi = NULL) <=> unknown
    /\ (r.optPauseHours = NULL) <=> unknown
    /\ unknown => (r.confidence = "low" /\ r.reason # "")
    /\ r.etaTs # NULL => QLess(QInt(at), r.etaTs)

\* C29: in every result of predictNextHighscore etaTs, runsExpected, runsLo,
\* runsHi and optPauseHours are null together, exactly when etaHuman is
\* 'unknown'; then confidence is 'low' and reason is not empty; an etaTs that
\* is not null is strictly later than the time of the call.
NullableFieldsTogether ==
    /\ predicted => NullTogether(pred, predAt)
    /\ predicted2 => NullTogether(pred2, predAt2)

\* A history long enough for a forecast, and none given: every nullable field
\* null.
NullableFieldsTogetherWitness ==
    /\ predicted
    /\ locals.n >= 4
    /\ pred.etaHuman = <<"unknown">>
    /\ pred.etaTs = NULL
    /\ pred.optPauseHours = NULL
    /\ predicted2
    /\ predAt2 > predAt


----------------------------------------------------------------------------
(* The events of a request                                                 *)

\* A call that is past its key and its client runs on: the statements of
\* lines 50-55 follow one another, the goroutine is scheduled, the stream
\* returns (with nil, an error or context.Canceled), s.mu is released by its
\* holders, and the deferred function runs to its end.
RunsOn(r) == pc[r] # "idle" /\ NextAI /\ pc'[r] # pc[r]

FairAI == \A r \in ReqIDs : WF_vars(RunsOn(r))

SpecAILive == InitAI /\ [][NextAI]_vars /\ FairAI

\* The places of the events of request r of the given type.
PlacesOf(type, r) == { i \in DOMAIN events : events[i] = Event(type, r) }

\* Done is the last event of its request.
DoneIsLast(r) ==
    \A i \in PlacesOf("AI:Session:Done", r) :
        \A j \in DOMAIN events : events[j].requestId = r => j <= i

\* What holds of the events of r at every moment: at most one Start and one
\* Done, Done only after Start and last of all, no entry in cancels once Done
\* is emitted, and, for a call that returned before Start, one Error alone.
EventsInOrder(r) ==
    /\ CountOf("AI:Session:Start", r) <= 1
    /\ CountOf("AI:Session:Done", r) <= 1
    /\ Emitted("AI:Session:Done", r) =>
          /\ Emitted("AI:Session:Start", r)
          /\ DoneIsLast(r)
          /\ r \notin cancels
    /\ pc[r] = "failed" =>
          /\ CountOf("AI:Session:Error", r) = 1
          /\ ~Emitted("AI:Session:Start", r)
          /\ ~Emitted("AI:Session:Done", r)
          /\ ~Emitted("AI:Session:Delta", r)

\* C30: a request whose Start is emitted gets exactly one Done in the end,
\* after its every Delta and Error, and cancels holds no entry for it from
\* then on; a call that fails before Start emits one Error and neither Start
\* nor Done.
EventProtocol ==
    /\ [](\A r \in ReqIDs : EventsInOrder(r))
    /\ \A r \in ReqIDs :
          Emitted("AI:Session:Start", r) ~> [](CountOf("AI:Session:Done", r) = 1)
    /\ \A r \in ReqIDs :
          pc[r] = "failed" ~> [](pc[r] = "failed" /\ CountOf("AI:Session:Error", r) = 1)

\* A request cancelled in flight whose stream failed, with Start, a Delta, an
\* Error and Done in this order, beside a call that failed before Start.
EventProtocolWitness ==
    \E r, q \in ReqIDs :
        /\ pc[r] = "done"
        /\ ctxDone[r]
        /\ Emitted("AI:Session:Delta", r)
        /\ Emitted("AI:Session:Error", r)
        /\ pc[q] = "failed"

====
